---- MODULE Spec2Model ----
(***************************************************************************)
(* Movie ETL pipeline (Capstone-PCJJL/Back_End): the relational store of   *)
(* db_manager.py, the single-record upsert load_movie_data, the batch      *)
(* loader load_movie_data_batch and its callers.                           *)
(*                                                                         *)
(* Every table is a set of rows, each row carrying its surrogate primary   *)
(* key `id`.  A session is a transaction: the handlers compute on a        *)
(* working copy and the durable database changes at commit only.           *)
(***************************************************************************)
EXTENDS Integers, Sequences, FiniteSets, TLC

----------------------------------------------------------------------------
(* Values *)

\* Python None / a falsy number (`if not tmdb_id`, `a or b`)
NoId == 0

\* Python None / SQL NULL for a string column
NULL == "NULL"

\* The MovieLens placeholder genre the loaders skip
NoGenresListed == "(no genres listed)"

\* Python `a or b`
Or(a, b) == IF a # NoId THEN a ELSE b

----------------------------------------------------------------------------
(* Bounds *)

\* longest list of candidates handed to one caller (a file, a data set)
MaxLen == 2

\* number of handler invocations explored from the empty database
MaxOps == 2

----------------------------------------------------------------------------
(* Inputs *)

\* A candidate record as the loaders read it: the external ID under the
\* catalog name (tmdb_id) and/or the MovieLens name (tmdbId), the title,
\* the optional 'genres' key, the MovieLens id and rating aggregate.
Cand(tid, tId, t, hg, gs) ==
    [tmdb_id |-> tid, tmdbId |-> tId, title |-> t, has_genres |-> hg,
     genres |-> gs, movieId |-> NoId, average_rating |-> NoId]

\* Catalog candidates (YAML batches, enriched TMDB records)
Candidates ==
    { Cand(1, NoId, "A", TRUE, <<"Drama">>),
      Cand(1, NoId, "B", TRUE, <<"Comedy">>),
      Cand(NoId, 2, "B", FALSE, <<>>),
      Cand(NoId, NoId, "A", TRUE, <<"Drama">>),
      Cand(2, NoId, NULL, TRUE, <<"Drama">>),
      Cand(2, NoId, "B", TRUE, <<NULL>>) }

\* A MovieLens record as MovieLensLoader.get_movie_data returns it
MLRow(mid, tId, t, gs, rating) ==
    [tmdb_id |-> NoId, tmdbId |-> tId, title |-> t, has_genres |-> TRUE,
     genres |-> gs, movieId |-> mid, average_rating |-> rating]

\* The MovieLens data set: links.csv maps two movies to TMDB id 1 and
\* none to movie 13
MLRows ==
    { MLRow(11, 1, "A", <<"Drama">>, 4),
      MLRow(12, 1, "B", <<"Comedy">>, 3),
      MLRow(13, NoId, "A", <<"Drama">>, 4),
      MLRow(14, 2, "B", <<NoGenresListed>>, NoId) }

\* An enriched record as MovieETL._enrich_movie_batch builds it
Enriched(tId, t, cast, kws) ==
    [tmdb_id |-> NoId, tmdbId |-> tId, title |-> t, has_genres |-> TRUE,
     genres |-> <<"Drama">>, movieId |-> NoId, average_rating |-> NoId,
     cast |-> cast, keywords |-> kws]

EnrichedRecords ==
    { Enriched(i, "A", c, k) : i \in {1, 2}, c \in {<<>>, <<7>>},
                              k \in {<<5>>, <<6>>} }

\* Lists of at most n candidates
RECURSIVE ListsUpTo(_, _)
ListsUpTo(S, n) ==
    IF n = 0 THEN { <<>> }
    ELSE LET shorter == ListsUpTo(S, n - 1)
         IN  shorter \cup { Append(l, c) : l \in shorter, c \in S }

\* the contents of a YAML file, or of the files of one run
CandidateLists == ListsUpTo(Candidates, MaxLen)

\* batch sizes tried
BatchSizes == 1..MaxLen

\* movies.csv holds a movieId once
DataSets ==
    { l \in ListsUpTo(MLRows, MaxLen) :
        \A i, j \in 1..Len(l) : i # j => l[i].movieId # l[j].movieId }

----------------------------------------------------------------------------
(* The relational store *)

EmptyDb ==
    [movies |-> {}, genres |-> {}, movie_genres |-> {}, people |-> {},
     movie_credits |-> {}, movie_keywords |-> {}, movie_changes |-> {}]

\* AUTO_INCREMENT primary key: a key no row of the table holds
RECURSIVE MaxIdOf(_)
MaxIdOf(tbl) ==
    IF tbl = {} THEN 0
    ELSE LET r == CHOOSE x \in tbl : TRUE
             m == MaxIdOf(tbl \ {r})
         IN  IF r.id > m THEN r.id ELSE m

NextId(tbl) == MaxIdOf(tbl) + 1

\* The result of a step of a transaction: whether it raised, and the
\* working copy
Ok(d) == [ok |-> TRUE, db |-> d]
Raise(d) == [ok |-> FALSE, db |-> d]

\* Column constraints of the movies table, dropping the UNIQUE index on
\* tmdb_id
MovieConstraintsNoUnique(d, row) ==
    /\ row.tmdb_id # NoId
    /\ row.title # NULL
    /\ row.movielens_id # NoId =>
          \A r \in d.movies : r.id = row.id \/ r.movielens_id # row.movielens_id

\* Column constraints of the movies table: tmdb_id UNIQUE NOT NULL,
\* movielens_id UNIQUE, title NOT NULL
MovieConstraints(d, row) ==
    /\ row.tmdb_id # NoId
    /\ row.title # NULL
    /\ \A r \in d.movies : r.id = row.id \/ r.tmdb_id # row.tmdb_id
    /\ row.movielens_id # NoId =>
          \A r \in d.movies : r.id = row.id \/ r.movielens_id # row.movielens_id

\* Movie(...) built from a candidate's fields
MovieRow(d, tmdb_id, md) ==
    [id |-> NextId(d.movies), tmdb_id |-> tmdb_id,
     movielens_id |-> md.movieId, title |-> md.title,
     movielens_rating |-> md.average_rating]

\* session.add(movie); session.flush()
InsertMovie(d, row) ==
    IF MovieConstraints(d, row)
    THEN Ok([d EXCEPT !.movies = @ \cup {row}])
    ELSE Raise(d)

\* session.query(Movie).filter_by(tmdb_id=...).first()
MovieByTmdbId(d, tmdb_id) ==
    LET found == {r \in d.movies : r.tmdb_id = tmdb_id}
    IN  IF found = {} THEN {} ELSE {CHOOSE r \in found : TRUE}

\* _track_change with every change record rewritten instead of appended
TrackChangeOverwrite(d, movie_id, change_type) ==
    [d EXCEPT !.movie_changes =
        {[id |-> 1, movie_id |-> movie_id, change_type |-> change_type]}]

\* _track_change: session.add(MovieChange(...)), committed by the caller
TrackChange(d, movie_id, change_type) ==
    [d EXCEPT !.movie_changes = @ \cup
        {[id |-> NextId(@), movie_id |-> movie_id, change_type |-> change_type]}]

\* "Get or create genre" then "Create movie-genre relationship" for one
\* genre name of a record
AddGenre(d, movie_id, genre_name) ==
    IF genre_name = NoGenresListed THEN Ok(d)
    ELSE LET found == {g \in d.genres : g.name = genre_name}
         IN  IF found = {} /\ genre_name = NULL
             THEN Raise(d)     \* genres.name is NOT NULL: the flush fails
             ELSE LET gid == IF found = {} THEN NextId(d.genres)
                             ELSE (CHOOSE g \in found : TRUE).id
                      d1  == IF found = {}
                             THEN [d EXCEPT !.genres = @ \cup
                                      {[id |-> gid, name |-> genre_name]}]
                             ELSE d
                  IN  Ok([d1 EXCEPT !.movie_genres = @ \cup
                            {[id |-> NextId(@), movie_id |-> movie_id,
                              genre_id |-> gid]}])

\* the loop over a record's genre names; stops at the first failure
RECURSIVE AddGenres(_, _, _)
AddGenres(d, movie_id, names) ==
    IF names = <<>> THEN Ok(d)
    ELSE LET r == AddGenre(d, movie_id, Head(names))
         IN  IF r.ok THEN AddGenres(r.db, movie_id, Tail(names)) ELSE r

\* session.query(MovieGenre).filter_by(movie_id=...).delete()
DeleteGenreLinks(d, movie_id) ==
    [d EXCEPT !.movie_genres = {l \in @ : l.movie_id # movie_id}]

----------------------------------------------------------------------------
(* DatabaseManager.load_movie_data: the single-record upsert *)

\* the external ID load_movie_data resolves
SingleTmdbId(md) == Or(md.tmdbId, md.tmdb_id)

\* the body of the try block, on the session's working copy
LoadMovieDataTx(d, md) ==
    LET tmdb_id == SingleTmdbId(md)
        existing == MovieByTmdbId(d, tmdb_id)
    IN
    IF tmdb_id = NoId THEN Raise(d)            \* ValueError
    ELSE
      LET written ==
            IF existing # {}
            THEN LET e   == CHOOSE r \in existing : TRUE
                     upd == [e EXCEPT !.title = md.title,
                                      !.movielens_rating = md.average_rating]
                 IN  IF MovieConstraints(d, upd)
                     THEN [ok |-> TRUE, id |-> e.id,
                           db |-> TrackChange(
                                    [d EXCEPT !.movies = (@ \ {e}) \cup {upd}],
                                    e.id, "update")]
                     ELSE [ok |-> FALSE, id |-> e.id, db |-> d]
            ELSE LET row == MovieRow(d, tmdb_id, md)
                     ins == InsertMovie(d, row)
                 IN  IF ins.ok
                     THEN [ok |-> TRUE, id |-> row.id,
                           db |-> TrackChange(ins.db, row.id, "create")]
                     ELSE [ok |-> FALSE, id |-> row.id, db |-> d]
      IN
      IF ~written.ok THEN Raise(d)
      ELSE IF ~md.has_genres THEN Ok(written.db)
      ELSE AddGenres(IF existing # {}
                     THEN DeleteGenreLinks(written.db, written.id)
                     ELSE written.db,
                     written.id, md.genres)

\* session.commit(), or session.rollback() and re-raise
LoadMovieDataResult(d, md) ==
    LET r == LoadMovieDataTx(d, md)
    IN  IF r.ok THEN Ok(r.db) ELSE Raise(d)

----------------------------------------------------------------------------
(* DatabaseManager.load_movie_data_batch: the batch loader *)

\* the external ID load_movie_data_batch resolves
BatchTmdbId(md) == Or(md.tmdb_id, md.tmdbId)

\* tmdb_ids of the batch, None included
BatchTmdbIds(list) == { BatchTmdbId(list[k]) : k \in 1..Len(list) }

\* existing_movies: one IN (...) query over the batch's ids
ExistingMovies(d, list) ==
    { r.tmdb_id : r \in {m \in d.movies : m.tmdb_id \in BatchTmdbIds(list)} }

\* the first loop without the "Skipping movie without TMDB ID" branch
RECURSIVE MoviesToAddKeepNoId(_, _)
MoviesToAddKeepNoId(list, existing) ==
    IF list = <<>> THEN <<>>
    ELSE LET md == Head(list)
             rest == MoviesToAddKeepNoId(Tail(list), existing)
         IN  IF BatchTmdbId(md) \in existing THEN rest ELSE <<md>> \o rest

\* the first loop: the candidates that become Movie objects (movies_to_add),
\* skipping those without an ID and those already stored
RECURSIVE MoviesToAdd(_, _)
MoviesToAdd(list, existing) ==
    IF list = <<>> THEN <<>>
    ELSE LET md == Head(list)
             rest == MoviesToAdd(Tail(list), existing)
         IN  IF BatchTmdbId(md) = NoId \/ BatchTmdbId(md) \in existing
             THEN rest
             ELSE <<md>> \o rest

\* movies_to_update: declared and never appended to
MoviesToUpdate(list, existing) == <<>>

\* candidates of the batch logged as "Skipping movie without TMDB ID"
NoIdCount(list) == Cardinality({k \in 1..Len(list) : BatchTmdbId(list[k]) = NoId})

\* session.bulk_save_objects(movies_to_add): one INSERT per object, the
\* first constraint violation raises
RECURSIVE BulkSaveObjects(_, _)
BulkSaveObjects(d, adds) ==
    IF adds = <<>> THEN Ok(d)
    ELSE LET md == Head(adds)
             r  == InsertMovie(d, MovieRow(d, BatchTmdbId(md), md))
         IN  IF r.ok THEN BulkSaveObjects(r.db, Tail(adds)) ELSE r

\* the genre loop body for one candidate of the batch
BatchGenresOf(d, md, existing) ==
    LET tmdb_id == BatchTmdbId(md)
        movie == MovieByTmdbId(d, tmdb_id)
    IN  IF tmdb_id = NoId \/ tmdb_id \in existing THEN Ok(d)
        ELSE IF movie # {} /\ md.has_genres
             THEN LET m == CHOOSE r \in movie : TRUE
                  IN  AddGenres(DeleteGenreLinks(d, m.id), m.id, md.genres)
             ELSE Ok(d)

\* range(0, len(movies), batch_size): the first batch and the rest
FirstBatch(movies, batch_size) ==
    SubSeq(movies, 1, IF Len(movies) < batch_size THEN Len(movies) ELSE batch_size)

RestAfterBatch(movies, batch_size) ==
    SubSeq(movies, batch_size + 1, Len(movies))

\* rows and change records a commit added, as an observer of the tables
RowsAdded(before, after) ==
    Cardinality({r \in after.movies : \A q \in before.movies : q.id # r.id})

ChangesAdded(before, after, kind) ==
    Cardinality({c \in after.movie_changes :
                    c.change_type = kind /\ c \notin before.movie_changes})

----------------------------------------------------------------------------
(* YAMLProcessor.process_yaml_files: deduplication across files *)

\* unique_movies: keyed by the 'tmdb_id' field, the first record of an id
\* is kept; records without that field are dropped
RECURSIVE DedupFrom(_, _)
DedupFrom(all_movies, seen) ==
    IF all_movies = <<>> THEN <<>>
    ELSE LET movie == Head(all_movies)
             tmdb_id == movie.tmdb_id
         IN  IF tmdb_id # NoId /\ tmdb_id \notin seen
             THEN <<movie>> \o DedupFrom(Tail(all_movies), seen \cup {tmdb_id})
             ELSE DedupFrom(Tail(all_movies), seen)

Dedup(all_movies) == DedupFrom(all_movies, {})

\* batch_size = 100
YamlBatchSize == 100

----------------------------------------------------------------------------
(* MovieETL.initial_load: MovieLens rows, one session per batch *)

\* batch_size = 500
InitialBatchSize == 500

\* One row of the batch under the inner try/except.  A failed flush rolls
\* the session's transaction back and leaves the session unusable until
\* rollback() is called; the except block only logs and continues.
InitialLoadRow(st, movie_data) ==
    IF movie_data.tmdbId = NoId THEN st           \* "Skip movies without TMDB IDs"
    ELSE IF ~st.active THEN [st EXCEPT !.errors = @ + 1]
    ELSE LET row == MovieRow(st.db, movie_data.tmdbId, movie_data)
             ins == InsertMovie(st.db, row)
             gen == IF ins.ok THEN AddGenres(ins.db, row.id, movie_data.genres)
                    ELSE ins
         IN  IF gen.ok
             THEN [st EXCEPT !.db = gen.db, !.created = @ + 1]
             ELSE [st EXCEPT !.active = FALSE, !.db = st.start, !.created = 0,
                             !.errors = @ + 1]

RECURSIVE InitialLoadRows(_, _)
InitialLoadRows(st, rows) ==
    IF rows = <<>> THEN st
    ELSE InitialLoadRows(InitialLoadRow(st, Head(rows)), Tail(rows))

\* One batch: the rows, then session.commit(), which raises on a session
\* whose flush failed; the outer except rolls back and continues
InitialLoadBatch(st, rows) ==
    LET r == InitialLoadRows([start |-> st.db, db |-> st.db, active |-> TRUE,
                              created |-> 0, errors |-> 0], rows)
    IN  IF r.active
        THEN [db |-> r.db, created |-> st.created + r.created,
              errors |-> st.errors + r.errors, failed |-> st.failed]
        ELSE [db |-> st.db, created |-> st.created,
              errors |-> st.errors + r.errors + 1, failed |-> st.failed + 1]

\* the loop over range(total_batches)
RECURSIVE InitialLoadBatches(_, _)
InitialLoadBatches(st, rows) ==
    IF rows = <<>> THEN st
    ELSE InitialLoadBatches(InitialLoadBatch(st, FirstBatch(rows, InitialBatchSize)),
                            RestAfterBatch(rows, InitialBatchSize))

----------------------------------------------------------------------------
(* MovieETL.update_movie: upsert, then credits and keywords *)

\* Person(tmdb_id=..., popularity=...): the Person model has no popularity
\* column, the declarative constructor raises TypeError
CreatePerson(d, tmdb_id) == Raise(d)

\* _process_credits, one cast member
AddCredit(d, movie_id, person_tmdb_id) ==
    LET found == {p \in d.people : p.tmdb_id = person_tmdb_id}
        made  == IF found = {} THEN CreatePerson(d, person_tmdb_id) ELSE Ok(d)
    IN  IF ~made.ok THEN made
        ELSE LET person == CHOOSE p \in made.db.people : p.tmdb_id = person_tmdb_id
             IN  Ok([made.db EXCEPT !.movie_credits = @ \cup
                       {[id |-> NextId(@), movie_id |-> movie_id,
                         person_id |-> person.id]}])

RECURSIVE AddCredits(_, _, _)
AddCredits(d, movie_id, cast) ==
    IF cast = <<>> THEN Ok(d)
    ELSE LET r == AddCredit(d, movie_id, Head(cast))
         IN  IF r.ok THEN AddCredits(r.db, movie_id, Tail(cast)) ELSE r

\* _process_credits: its own session, commit or rollback and re-raise
ProcessCredits(d, movie_id, cast) ==
    LET r == AddCredits(d, movie_id, cast)
    IN  IF r.ok THEN r ELSE Raise(d)

\* _process_keywords, one keyword: skipped when any row holds its tmdb_id
AddKeyword(d, movie_id, kw) ==
    IF \E k \in d.movie_keywords : k.tmdb_id = kw THEN d
    ELSE [d EXCEPT !.movie_keywords = @ \cup
            {[id |-> NextId(@), movie_id |-> movie_id, tmdb_id |-> kw]}]

\* _process_keywords: its own session, committed
RECURSIVE ProcessKeywords(_, _, _)
ProcessKeywords(d, movie_id, kws) ==
    IF kws = <<>> THEN d
    ELSE ProcessKeywords(AddKeyword(d, movie_id, Head(kws)), movie_id, Tail(kws))

\* update_movie after enrichment: load_movie_data, get_movie_by_tmdb_id,
\* _process_credits, _process_keywords; each commits on its own, the first
\* exception ends the call
UpdateMovieResult(d, md) ==
    LET loaded == LoadMovieDataResult(d, md)
        movie  == MovieByTmdbId(loaded.db, md.tmdbId)
    IN  IF ~loaded.ok \/ movie = {} THEN loaded
        ELSE LET m == CHOOSE r \in movie : TRUE
                 credited == ProcessCredits(loaded.db, m.id, md.cast)
             IN  IF ~credited.ok THEN credited
                 ELSE Ok(ProcessKeywords(credited.db, m.id, md.keywords))

----------------------------------------------------------------------------
(* TMDBClient: the response cache and the rate limiter *)

\* Python None as a response
None == "None"

\* self.max_requests_per_second, the ceiling N (40 in __init__), scaled down
MaxRequestsPerSecond == 1

\* self.cache_ttl, seconds
CacheTtl == 3600

\* self.cache_cleanup_interval, seconds
CacheCleanupInterval == 300

\* threads of the ThreadPoolExecutor in _enrich_movie_batch
MaxWorkers == 2

\* calls of the client explored
MaxCalls == 2

Workers == 1..MaxWorkers

\* the instants the clock is read at
Instants == {1, 300, 301, 3600, 3601}

\* cache keys f"{endpoint}:{str(params)}": a detail lookup and a discover page
Keys == {"movie/1:None", "discover/movie:page1"}

\* the keys reached through the @lru_cache methods (get_movie_details, ...)
DetailKeys == {"movie/1:None"}

\* upstream answers: a JSON object, the empty object {}, or an HTTP error
\* outside the retried statuses (404)
Responses ==
    { [status |-> 200, data |-> "object"],
      [status |-> 200, data |-> "{}"],
      [status |-> 404, data |-> None] }

\* Python truthiness of a response: None and {} are falsy
Truthy(data) == data \notin {None, "{}"}

\* _get_from_cache under cache_lock: the entry's data while it is younger
\* than the TTL, else None
GetFromCache(cache, cache_key, t) ==
    LET found == {e \in cache : e.key = cache_key}
    IN  IF found = {} THEN None
        ELSE LET e == CHOOSE x \in found : TRUE
             IN  IF t - e.time < CacheTtl THEN e.data ELSE None

\* _add_to_cache under cache_lock: request_cache[cache_key] = (time, data)
AddToCache(cache, cache_key, t, data) ==
    {e \in cache : e.key # cache_key}
        \cup {[key |-> cache_key, time |-> t, data |-> data]}

\* a sweep that keeps every entry
SweepCacheKeepAll(cache, t) == cache

\* the dict comprehension of _cleanup_cache
SweepCache(cache, t) == {e \in cache : t - e.time < CacheTtl}

\* [t for t in self.request_times if now - t < 1]
RECURSIVE RecentRequests(_, _)
RecentRequests(times, t) ==
    IF times = <<>> THEN <<>>
    ELSE IF t - Head(times) < 1
         THEN <<Head(times)>> \o RecentRequests(Tail(times), t)
         ELSE RecentRequests(Tail(times), t)

\* a thread outside _make_request
IdleWorker ==
    [pc |-> "idle", key |-> None, memo |-> FALSE, now |-> 0, times |-> <<>>,
     waited |-> FALSE, wake |-> 0, result |-> None, logged |-> FALSE]

----------------------------------------------------------------------------
VARIABLES
    db,        \* the durable database
    pc,        \* where the running handler stands ("idle": none runs)
    queue,     \* process_file: the movies of the file not yet batched
    bs,        \* process_file: batch_size
    session,   \* load_movie_data_batch: the open session
    log,       \* what the logger has recorded, by message
    nOps,      \* handler invocations so far
    last       \* the last call into the database manager and its outcome

vars == <<db, pc, queue, bs, session, log, nOps, last>>

\* TMDBClient (api/tmdb_client.py) and the threads that call it
VARIABLES
    now,                  \* time.time(), in seconds
    request_times,        \* self.request_times
    request_cache,        \* self.request_cache: key -> (time, data)
    last_cache_cleanup,   \* self.last_cache_cleanup
    lru,                  \* what @lru_cache has memoised: key -> result
    worker,               \* each thread's position in _make_request
    issued,               \* upstream requests sent within the last second
    calls                 \* calls of the client made so far

cvars == <<now, request_times, request_cache, last_cache_cleanup, lru,
           worker, issued, calls>>

\* a paginated fetch in progress
VARIABLES pager

pvars == <<pager>>

\* the tables the TMDB updater writes with SQL text (update_tmdb_data.py):
\* movies keyed by the external ID, genres and credits by movie
VARIABLES catalog

uvars == <<catalog>>

EmptyCatalog == [movies |-> {}, genres |-> {}, credits |-> {}]

\* the last value computed by the id resolution of the loaders and by the
\* year extraction of the MovieLens scripts
VARIABLES resolved, extracted

fvars == <<resolved, extracted>>

\* None, as the year of a title
NoYear == [found |-> FALSE, year |-> 0]

\* MovieETL._enrich_movie_batch: the batch, the futures of the pool, the
\* files of data/cache, what the TMDB client answers, and the main thread
VARIABLES
    movie_batch,      \* the argument
    future,           \* futures[i]: where process_movie stands, its result
    cache_files,      \* data/cache/{tmdb_id}_{data_type}.json
    files_at_start,   \* the cache files when the batch was submitted
    tmdb_answers,     \* what get_movie_details / get_movie_credits return
    enriched_movies,  \* the list being returned
    yielded,          \* futures as_completed has handed out
    epc               \* the main thread: "idle", "collecting", "returned",
                      \* then update_movie: "IndexError", "skipped",
                      \* "load_movie_data"

evars == <<movie_batch, future, cache_files, files_at_start, tmdb_answers,
           enriched_movies, yielded, epc>>

\* the TMDB ids of the MovieLens data set and the cached data types
TmdbIds == {1, 2}
DataTypes == {"details", "credits", "keywords"}

\* no cache file exists
NoCacheFiles == [f \in TmdbIds \X DataTypes |-> "absent"]

\* _enrich_movie_batch has not been called
PoolInit ==
    /\ movie_batch = <<>>
    /\ future = <<>>
    /\ cache_files = NoCacheFiles
    /\ files_at_start = NoCacheFiles
    /\ tmdb_answers = [id \in TmdbIds |-> [details |-> "None", credits |-> "None"]]
    /\ enriched_movies = <<>>
    /\ yielded = {}
    /\ epc = "idle"

\* the YAML files of the run of process_file / process_yaml_files in
\* progress or last finished: whether one could not be loaded, whether a
\* batch raised, whether they were moved to the processed directory
VARIABLES yaml_run

yvars == <<yaml_run>>

NoRun == [op |-> "none", unreadable |-> FALSE, failed |-> FALSE,
          moved |-> FALSE]

\* TMDBUpdater.update_all_movies: the updated_at column of the movies
\* table, the database clock, the loop's locals, and how often each row was
\* selected
VARIABLES updated_at, current_timestamp, upd_batch_size, tmdb_found, total_movies,
          processed_count, updated_count, batch_movies, next_in_batch,
          selected, apc

avars == <<updated_at, current_timestamp, upd_batch_size, tmdb_found, total_movies,
           processed_count, updated_count, batch_movies, next_in_batch,
           selected, apc>>

\* update_all_movies not called yet
UpdateAllInit ==
    /\ updated_at = <<>>
    /\ current_timestamp = 1
    /\ upd_batch_size = 0
    /\ tmdb_found = <<>>
    /\ total_movies = 0
    /\ processed_count = 0
    /\ updated_count = 0
    /\ batch_movies = <<>>
    /\ next_in_batch = 1
    /\ selected = <<>>
    /\ apc = "idle"

\* TMDBUpdater.conn: the committed tables, the tables as the connection
\* sees them (its uncommitted statements included), the value the last
\* update_existing_movie returned, the number of calls, and the tables an
\* all-or-nothing update_existing_movie would have left
VARIABLES durable, conn, connected, returned, n_updates, atomic_db

tvars == <<durable, conn, connected, returned, n_updates, atomic_db>>

\* self.conn not opened yet
ConnInit ==
    /\ durable = EmptyCatalog
    /\ conn = EmptyCatalog
    /\ connected = FALSE
    /\ returned = "none"
    /\ n_updates = 0
    /\ atomic_db = EmptyCatalog

\* TMDBETL's review file: the approval_status of each of its movies,
\* whether the file was archived, the movies load_from_yaml has written to
\* the database, and what its last call did
VARIABLES yaml_movies, archived, written, last_load, rpc

rvars == <<yaml_movies, archived, written, last_load, rpc>>

NoLoad == [approved |-> {}, errors |-> 0]

\* no review file yet
ReviewInit ==
    /\ yaml_movies = <<>>
    /\ archived = FALSE
    /\ written = {}
    /\ last_load = NoLoad
    /\ rpc = "idle"

\* TMDBClient.get_movie_ids with the IDs of its pages: the call's
\* arguments and locals, the IDs seen in fetched pages, the list returned
VARIABLES ids_call

ivars == <<ids_call>>

NoIdsCall ==
    [pc |-> "idle", since_id |-> 0, years |-> 0, page |-> 0, total_pages |-> 0,
     movie_ids |-> {}, seen |-> {}, returned |-> <<>>, error_path |-> FALSE]

\* get_movie_ids not called yet
IdsInit == ids_call = NoIdsCall

\* nothing computed yet
FnInit ==
    /\ resolved = [md |-> Cand(NoId, NoId, "A", FALSE, <<>>),
                   single |-> {}, batch |-> {}]
    /\ extracted = [fn |-> "none", title |-> <<>>, year |-> NoYear]

\* TMDBClient.__init__: empty limiter and cache, then the test request
\* _make_request('configuration'), which must return a non-empty object
ClientInit ==
    /\ now = 0
    /\ request_times = <<0>>
    /\ request_cache = {[key |-> "configuration:None", time |-> 0, data |-> "object"]}
    /\ last_cache_cleanup = 0
    /\ lru = {}
    /\ worker = [w \in Workers |-> IdleWorker]
    /\ issued = <<0>>
    /\ calls = 0

\* no fetch running
NoFetch ==
    [fn |-> "none", pc |-> "done", all |-> <<>>, years |-> <<>>, page |-> 0,
     total_pages |-> 0, requests |-> 0, highest |-> 0, attempted |-> {},
     aborted |-> FALSE]

PagerInit == pager = NoFetch

NoSession ==
    [db |-> EmptyDb, list |-> <<>>, existing |-> {}, i |-> 0, adds |-> <<>>,
     repeat |-> FALSE, firstCreated |-> 0]

\* the outcome of a call as an observer counts it.  `rejected` is what the
\* call itself tallies: load_movie_data_batch returns None and no loader
\* keeps a counter, so nothing ever raises it.
NoCall ==
    [op |-> "none", ok |-> TRUE, input |-> <<>>, created |-> 0, updated |-> 0,
     rejected |-> 0, chgCreate |-> 0, chgUpdate |-> 0, repeat |-> FALSE,
     firstCreated |-> 0]

Init ==
    /\ db = EmptyDb
    /\ pc = "idle"
    /\ queue = <<>>
    /\ bs = 1
    /\ session = NoSession
    /\ log = [no_id |-> 0, errors |-> 0, processed |-> 0]
    /\ nOps = 0
    /\ last = NoCall
    /\ ClientInit
    /\ PagerInit
    /\ catalog = EmptyCatalog
    /\ FnInit
    /\ PoolInit
    /\ yaml_run = NoRun
    /\ UpdateAllInit
    /\ ConnInit
    /\ ReviewInit
    /\ IdsInit

\* DatabaseManager.load_movie_data(movie_data), called on its own
LoadMovieData(md) ==
    /\ pc = "idle"
    /\ nOps < MaxOps
    /\ LET r == LoadMovieDataResult(db, md)
           existed == MovieByTmdbId(db, SingleTmdbId(md)) # {}
       IN  /\ db' = r.db
           /\ last' = [NoCall EXCEPT
                         !.op = "load_movie_data", !.ok = r.ok,
                         !.created = IF r.ok /\ ~existed THEN 1 ELSE 0,
                         !.updated = IF r.ok /\ existed THEN 1 ELSE 0,
                         !.chgCreate = ChangesAdded(db, r.db, "create"),
                         !.chgUpdate = ChangesAdded(db, r.db, "update")]
           /\ log' = IF r.ok THEN log ELSE [log EXCEPT !.errors = @ + 1]
    /\ nOps' = nOps + 1
    /\ UNCHANGED <<pc, queue, bs, session>>
    /\ UNCHANGED <<cvars, pvars, uvars, fvars, evars, yvars, avars, tvars, rvars, ivars>>

\* DatabaseManager.clear_database
ClearDatabase ==
    /\ pc = "idle"
    /\ nOps < MaxOps
    /\ db' = EmptyDb
    /\ last' = [NoCall EXCEPT !.op = "clear_database"]
    /\ nOps' = nOps + 1
    /\ UNCHANGED <<pc, queue, bs, session, log>>
    /\ UNCHANGED <<cvars, pvars, uvars, fvars, evars, yvars, avars, tvars, rvars, ivars>>

\* DatabaseManager.create_tables: every table is dropped and created anew
\* (MovieETL's main() calls it before the command it was given)
CreateTables ==
    /\ pc = "idle"
    /\ nOps < MaxOps
    /\ db' = EmptyDb
    /\ last' = [NoCall EXCEPT !.op = "create_tables"]
    /\ nOps' = nOps + 1
    /\ UNCHANGED <<pc, queue, bs, session, log>>
    /\ UNCHANGED <<cvars, pvars, uvars, fvars, evars, yvars, avars, tvars, rvars, ivars>>

\* MovieETL.initial_load over the MovieLens data set
InitialLoad(rows) ==
    /\ pc = "idle"
    /\ nOps < MaxOps
    /\ LET r == InitialLoadBatches([db |-> db, created |-> 0, errors |-> 0,
                                    failed |-> 0], rows)
       IN  /\ db' = r.db
           /\ last' = [NoCall EXCEPT
                         !.op = "initial_load", !.ok = (r.failed = 0),
                         !.created = r.created,
                         !.chgCreate = ChangesAdded(db, r.db, "create"),
                         !.chgUpdate = ChangesAdded(db, r.db, "update")]
           /\ log' = [log EXCEPT !.errors = @ + r.errors]
    /\ nOps' = nOps + 1
    /\ UNCHANGED <<pc, queue, bs, session>>
    /\ UNCHANGED <<cvars, pvars, uvars, fvars, evars, yvars, avars, tvars, rvars, ivars>>

\* MovieETL.update_movie(tmdb_id), the enrichment having returned md
UpdateMovie(md) ==
    /\ pc = "idle"
    /\ nOps < MaxOps
    /\ LET r == UpdateMovieResult(db, md)
           existed == MovieByTmdbId(db, SingleTmdbId(md)) # {}
           loaded == LoadMovieDataResult(db, md).ok
       IN  /\ db' = r.db
           /\ last' = [NoCall EXCEPT
                         !.op = "update_movie", !.ok = r.ok,
                         !.created = IF loaded /\ ~existed THEN 1 ELSE 0,
                         !.updated = IF loaded /\ existed THEN 1 ELSE 0,
                         !.chgCreate = ChangesAdded(db, r.db, "create"),
                         !.chgUpdate = ChangesAdded(db, r.db, "update")]
           /\ log' = IF r.ok THEN log ELSE [log EXCEPT !.errors = @ + 1]
    /\ nOps' = nOps + 1
    /\ UNCHANGED <<pc, queue, bs, session>>
    /\ UNCHANGED <<cvars, pvars, uvars, fvars, evars, yvars, avars, tvars, rvars, ivars>>

\* self.yaml_handler.load_movies(file_path): YAMLHandler defines no
\* load_movies, so the call raises AttributeError for every file; the
\* loop logs it and continues, and the file adds nothing to all_movies
LoadMovies(movies) == <<>>

\* YAMLProcessor.process_yaml_files over files holding all_movies: the
\* files are read and what was read is deduplicated
ProcessYamlFiles(all_movies) ==
    /\ pc = "idle"
    /\ nOps < MaxOps
    /\ queue' = Dedup(LoadMovies(all_movies))
    /\ yaml_run' = [NoRun EXCEPT !.op = "process_yaml_files",
                                 !.unreadable = (LoadMovies(all_movies) # all_movies)]
    /\ bs' = YamlBatchSize
    /\ pc' = "file"
    /\ nOps' = nOps + 1
    /\ UNCHANGED <<db, session, log, last>>
    /\ UNCHANGED <<cvars, pvars, uvars, fvars, evars, avars, tvars, rvars, ivars>>

\* YAMLProcessor.process_file(filepath, batch_size): the file is read
ProcessFile(movies, batch_size) ==
    /\ pc = "idle"
    /\ nOps < MaxOps
    /\ queue' = movies
    /\ yaml_run' = [NoRun EXCEPT !.op = "process_file"]
    /\ bs' = batch_size
    /\ pc' = "file"
    /\ nOps' = nOps + 1
    /\ UNCHANGED <<db, session, log, last>>
    /\ UNCHANGED <<cvars, pvars, uvars, fvars, evars, avars, tvars, rvars, ivars>>

\* process_file: the next batch is cut and load_movie_data_batch opens its
\* session and looks the batch's ids up
BatchBegin ==
    /\ pc = "file"
    /\ queue # <<>>
    /\ LET list == FirstBatch(queue, bs)
           existing == ExistingMovies(db, list)
       IN  session' = [db |-> db, list |-> list, existing |-> existing, i |-> 1,
                       adds |-> MoviesToAdd(list, existing),
                       repeat |-> (last.op = "load_movie_data_batch" /\ last.ok
                                   /\ last.input = list),
                       firstCreated |-> last.created]
    /\ queue' = RestAfterBatch(queue, bs)
    /\ pc' = "bulk"
    /\ UNCHANGED <<db, bs, log, nOps, last>>
    /\ UNCHANGED <<cvars, pvars, uvars, fvars, evars, yvars, avars, tvars, rvars, ivars>>

\* the except block without session.rollback(): what the session had
\* flushed is kept
BatchRaisedNoRollback ==
    /\ session' = NoSession
    /\ pc' = "file"
    /\ db' = session.db
    /\ last' = [NoCall EXCEPT
                  !.op = "load_movie_data_batch", !.ok = FALSE,
                  !.repeat = session.repeat,
                  !.firstCreated = session.firstCreated]
    /\ yaml_run' = [yaml_run EXCEPT !.failed = TRUE]
    /\ UNCHANGED <<queue, bs, nOps>>

\* the call ends in the except block: rollback, log, re-raise; process_file
\* logs and continues with the next batch
BatchRaised ==
    /\ session' = NoSession
    /\ pc' = "file"
    /\ last' = [NoCall EXCEPT
                  !.op = "load_movie_data_batch", !.ok = FALSE,
                  !.repeat = session.repeat,
                  !.firstCreated = session.firstCreated]
    /\ yaml_run' = [yaml_run EXCEPT !.failed = TRUE]
    /\ UNCHANGED <<db, queue, bs, nOps>>

\* load_movie_data_batch: the first loop and bulk_save_objects
BatchBulkSave ==
    /\ pc = "bulk"
    /\ LET r == BulkSaveObjects(session.db, session.adds)
           warned == [log EXCEPT !.no_id = @ + NoIdCount(session.list)]
       IN  IF r.ok
           THEN /\ session' = [session EXCEPT !.db = r.db]
                /\ pc' = "genres"
                /\ log' = warned
                /\ UNCHANGED <<db, queue, bs, nOps, last, yaml_run>>
           ELSE /\ BatchRaised
                /\ log' = [warned EXCEPT !.errors = @ + 1]
    /\ UNCHANGED <<cvars, pvars, uvars, fvars, evars, avars, tvars, rvars, ivars>>

\* load_movie_data_batch: the genre loop, one candidate of the batch
BatchGenres ==
    /\ pc = "genres"
    /\ session.i <= Len(session.list)
    /\ LET r == BatchGenresOf(session.db, session.list[session.i], session.existing)
       IN  IF r.ok
           THEN /\ session' = [session EXCEPT !.db = r.db, !.i = @ + 1]
                /\ UNCHANGED <<db, pc, queue, bs, log, nOps, last, yaml_run>>
           ELSE /\ BatchRaised
                /\ log' = [log EXCEPT !.errors = @ + 1]
    /\ UNCHANGED <<cvars, pvars, uvars, fvars, evars, avars, tvars, rvars, ivars>>

\* load_movie_data_batch: session.commit()
BatchCommit ==
    /\ pc = "genres"
    /\ session.i > Len(session.list)
    /\ db' = session.db
    /\ last' = [NoCall EXCEPT
                  !.op = "load_movie_data_batch", !.input = session.list,
                  !.created = Len(session.adds),
                  !.updated = Len(MoviesToUpdate(session.list, session.existing)),
                  !.chgCreate = ChangesAdded(db, session.db, "create"),
                  !.chgUpdate = ChangesAdded(db, session.db, "update"),
                  !.repeat = session.repeat,
                  !.firstCreated = session.firstCreated]
    /\ session' = NoSession
    /\ pc' = "file"
    /\ UNCHANGED <<queue, bs, log, nOps>>
    /\ UNCHANGED <<cvars, pvars, uvars, fvars, evars, yvars, avars, tvars, rvars, ivars>>

\* YAMLProcessor.process_file on a file load_movie_batch cannot read: the
\* error is logged and re-raised, nothing is loaded or moved
ProcessFileUnreadable ==
    /\ pc = "idle"
    /\ nOps < MaxOps
    /\ yaml_run' = [NoRun EXCEPT !.op = "process_file", !.unreadable = TRUE]
    /\ log' = [log EXCEPT !.errors = @ + 1]
    /\ nOps' = nOps + 1
    /\ UNCHANGED <<db, pc, queue, bs, session, last>>
    /\ UNCHANGED <<cvars, pvars, uvars, fvars, evars, avars, tvars, rvars, ivars>>

\* process_file: every batch was attempted; mark_as_processed moves the
\* file (process_yaml_files: every file of the run)
FileDone ==
    /\ pc = "file"
    /\ queue = <<>>
    /\ pc' = "idle"
    /\ yaml_run' = [yaml_run EXCEPT !.moved = TRUE]
    /\ log' = [log EXCEPT !.processed = @ + 1]
    /\ UNCHANGED <<db, queue, bs, session, nOps, last>>
    /\ UNCHANGED <<cvars, pvars, uvars, fvars, evars, avars, tvars, rvars, ivars>>

----------------------------------------------------------------------------
(* TMDBETL.initial_load (tmdb_etl.py) and TMDBUpdater (update_tmdb_data.py) *)

\* TMDBETL.initial_load: `self.db_manager.TMDBMovieGenre` is evaluated
\* first; DatabaseManager has no such attribute (db_manager.py defines
\* Movie ... MovieChange only), so AttributeError is raised before any
\* delete, the handler rolls back and re-raises
TMDBInitialLoadClears(d) == Ok([d EXCEPT !.movies = {}, !.movie_genres = {}])

TMDBInitialLoadTx(d) == Raise(d)

\* movie ids the updater is called with
MovieIds == {1, 2}

\* get_movie_details(movie_id): nothing, or the movie's title and genres
TmdbDetails ==
    { [found |-> FALSE, title |-> NULL, genres |-> <<>>],
      [found |-> TRUE, title |-> "A", genres |-> <<"Drama">>],
      [found |-> TRUE, title |-> "B", genres |-> <<>>] }

\* get_movie_credits(movie_id): nothing, or the person ids of the cast and
\* director records
TmdbCredits ==
    { [found |-> FALSE, people |-> <<>>],
      [found |-> TRUE, people |-> <<>>],
      [found |-> TRUE, people |-> <<7>>] }

\* get_movies_since_date(start_date): the ids of the movies returned
NewMovieLists == { <<>>, <<1>>, <<1, 2>>, <<2, 2>> }

\* SELECT id FROM movies
GetExistingMovieIds(c) == { r.id : r \in c.movies }

\* UPDATE movies SET title = ..., ... WHERE id = :id
UpdateMovieRow(c, movie_id, details) ==
    [c EXCEPT !.movies =
        { IF r.id = movie_id THEN [r EXCEPT !.title = details.title]
                             ELSE r : r \in @ }]

\* TMDBUpdater._update_genres
UpdateGenres(c, movie_id, details) ==
    [c EXCEPT !.genres =
        { g \in @ : g.movie_id # movie_id }
        \cup { [movie_id |-> movie_id, genre_name |-> details.genres[i]] :
                  i \in DOMAIN details.genres }]

\* TMDBUpdater._update_credits
UpdateCredits(c, movie_id, credits) ==
    [c EXCEPT !.credits =
        { k \in @ : k.movie_id # movie_id }
        \cup { [movie_id |-> movie_id, person_id |-> credits.people[i]] :
                  i \in DOMAIN credits.people }]

\* TMDBUpdater.update_existing_movie
UpdateExistingMovieResult(c, movie_id, details, credits) ==
    IF ~details.found \/ ~credits.found THEN Raise(c)       \* return False
    ELSE Ok(UpdateCredits(
              UpdateGenres(UpdateMovieRow(c, movie_id, details),
                           movie_id, details),
              movie_id, credits))

\* TMDBUpdater._add_movie_to_db
AddMovieToDb(c, movie_id, details, credits) ==
    IF movie_id \in GetExistingMovieIds(c) \/ ~details.found
    THEN Raise(c)                                           \* return False
    ELSE LET ins == [c EXCEPT !.movies =
                        @ \cup {[id |-> movie_id, title |-> details.title]}]
             gen == UpdateGenres(ins, movie_id, details)
         IN  Ok(IF credits.found THEN UpdateCredits(gen, movie_id, credits)
                ELSE gen)

\* TMDBUpdater.add_new_movies: the loop over movies_to_add
RECURSIVE AddNewMoviesLoop(_, _, _, _)
AddNewMoviesLoop(st, movies_to_add, details, credits) ==
    IF movies_to_add = <<>> THEN st
    ELSE IF ~details.found
    THEN AddNewMoviesLoop(st, Tail(movies_to_add), details, credits)
    ELSE LET r == AddMovieToDb(st.db, Head(movies_to_add), details, credits)
         IN  AddNewMoviesLoop(
                [db |-> r.db,
                 added_count |-> st.added_count + (IF r.ok THEN 1 ELSE 0)],
                Tail(movies_to_add), details, credits)

\* TMDBUpdater.add_new_movies
AddNewMoviesResult(c, new_movies, details, credits) ==
    IF c.movies = {} \/ new_movies = <<>>
    THEN [db |-> c, added_count |-> 0]
    ELSE AddNewMoviesLoop(
            [db |-> c, added_count |-> 0],
            SelectSeq(new_movies, LAMBDA m : m \notin GetExistingMovieIds(c)),
            details, credits)

\* TMDBETL.initial_load
TMDBInitialLoad ==
    /\ pc = "idle"
    /\ nOps < MaxOps
    /\ LET r == TMDBInitialLoadTx(db)
       IN  /\ db' = r.db
           /\ last' = [NoCall EXCEPT !.op = "tmdb_initial_load", !.ok = r.ok]
           /\ log' = IF r.ok THEN log ELSE [log EXCEPT !.errors = @ + 1]
    /\ nOps' = nOps + 1
    /\ UNCHANGED <<pc, queue, bs, session>>
    /\ UNCHANGED <<cvars, pvars, uvars, fvars, evars, yvars, avars, tvars, rvars, ivars>>

\* TMDBUpdater.update_existing_movie(movie_id)
UpdateExistingMovie(movie_id, details, credits) ==
    /\ pc = "idle"
    /\ nOps < MaxOps
    /\ LET r == UpdateExistingMovieResult(catalog, movie_id, details, credits)
       IN  /\ catalog' = r.db
           /\ last' = [NoCall EXCEPT !.op = "update_existing_movie",
                                     !.ok = r.ok]
           /\ log' = IF r.ok THEN log ELSE [log EXCEPT !.errors = @ + 1]
    /\ nOps' = nOps + 1
    /\ UNCHANGED <<db, pc, queue, bs, session>>
    /\ UNCHANGED <<cvars, pvars, fvars, evars, yvars, avars, tvars, rvars, ivars>>

\* TMDBUpdater.search_and_add_movie(search_term), the term being a movie id
SearchAndAddMovie(movie_id, details, credits) ==
    /\ pc = "idle"
    /\ nOps < MaxOps
    /\ LET r == AddMovieToDb(catalog, movie_id, details, credits)
       IN  /\ catalog' = r.db
           /\ last' = [NoCall EXCEPT !.op = "search_and_add_movie",
                                     !.ok = r.ok,
                                     !.created = IF r.ok THEN 1 ELSE 0]
           /\ log' = IF ~details.found THEN [log EXCEPT !.errors = @ + 1]
                     ELSE log
    /\ nOps' = nOps + 1
    /\ UNCHANGED <<db, pc, queue, bs, session>>
    /\ UNCHANGED <<cvars, pvars, fvars, evars, yvars, avars, tvars, rvars, ivars>>

\* TMDBUpdater.add_new_movies(time_period)
AddNewMovies(new_movies, details, credits) ==
    /\ pc = "idle"
    /\ nOps < MaxOps
    /\ LET r == AddNewMoviesResult(catalog, new_movies, details, credits)
       IN  /\ catalog' = r.db
           /\ last' = [NoCall EXCEPT !.op = "add_new_movies",
                                     !.created = r.added_count]
           /\ log' = IF catalog.movies = {} THEN [log EXCEPT !.errors = @ + 1]
                     ELSE log
    /\ nOps' = nOps + 1
    /\ UNCHANGED <<db, pc, queue, bs, session>>
    /\ UNCHANGED <<cvars, pvars, fvars, evars, yvars, avars, tvars, rvars, ivars>>

Next ==
    \/ \E md \in Candidates : LoadMovieData(md)
    \/ ClearDatabase
    \/ CreateTables
    \/ \E movies \in CandidateLists, b \in BatchSizes :
          ProcessFile(movies, b)
    \/ \E movies \in CandidateLists : ProcessYamlFiles(movies)
    \/ \E rows \in DataSets : InitialLoad(rows)
    \/ \E md \in EnrichedRecords : UpdateMovie(md)
    \/ BatchBegin
    \/ BatchBulkSave
    \/ BatchGenres
    \/ BatchCommit
    \/ FileDone
    \/ ProcessFileUnreadable
    \/ TMDBInitialLoad
    \/ \E movie_id \in MovieIds, details \in TmdbDetails, credits \in TmdbCredits :
          UpdateExistingMovie(movie_id, details, credits)
    \/ \E movie_id \in MovieIds, details \in TmdbDetails, credits \in TmdbCredits :
          SearchAndAddMovie(movie_id, details, credits)
    \/ \E new_movies \in NewMovieLists, details \in TmdbDetails,
          credits \in TmdbCredits :
          AddNewMovies(new_movies, details, credits)

Spec == Init /\ [][Next]_vars

----------------------------------------------------------------------------
(* TMDBClient._make_request, one step per shared-state access of a thread *)

\* lru_cache stores the result of the call under its argument
LruPut(memoised, cache_key, result) ==
    {m \in memoised : m.key # cache_key}
        \cup {[key |-> cache_key, result |-> result]}

\* the thread's call returns `data`; a call made through an @lru_cache
\* method memoises what it returns, None included
Return(w, data, logged) ==
    /\ worker' = [worker EXCEPT ![w] =
                     [IdleWorker EXCEPT !.result = data, !.logged = logged]]
    /\ lru' = IF worker[w].memo THEN LruPut(lru, worker[w].key, data) ELSE lru

\* the cache after the response: raise_for_status() raises on an error
\* status before _add_to_cache is reached
CacheAfterResponseAlways(cache, cache_key, t, resp) ==
    AddToCache(cache, cache_key, t, resp.data)

CacheAfterResponse(cache, cache_key, t, resp) ==
    IF resp.status = 200 THEN AddToCache(cache, cache_key, t, resp.data)
    ELSE cache

\* a thread calls _make_request(endpoint, params), directly or (memo)
\* through get_movie_details / get_movie_credits / get_person
Call(w, cache_key, memo) ==
    /\ worker[w].pc = "idle"
    /\ calls < MaxCalls
    /\ memo => cache_key \in DetailKeys
    /\ calls' = calls + 1
    /\ IF memo /\ \E m \in lru : m.key = cache_key
       THEN worker' = [worker EXCEPT ![w] =
                [IdleWorker EXCEPT !.result =
                    (CHOOSE m \in lru : m.key = cache_key).result]]
       ELSE worker' = [worker EXCEPT ![w] =
                [IdleWorker EXCEPT !.pc = "cache", !.key = cache_key,
                                   !.memo = memo]]
    /\ UNCHANGED <<now, request_times, request_cache, last_cache_cleanup,
                   lru, issued>>
    /\ UNCHANGED <<vars, pvars, uvars, fvars, evars, yvars, avars, tvars, rvars, ivars>>

\* cached_data = self._get_from_cache(cache_key); if cached_data: return
CacheLookup(w) ==
    /\ worker[w].pc = "cache"
    /\ LET cached_data == GetFromCache(request_cache, worker[w].key, now)
       IN  IF Truthy(cached_data)
           THEN Return(w, cached_data, FALSE)
           ELSE /\ worker' = [worker EXCEPT ![w].pc = "rate_limit"]
                /\ UNCHANGED lru
    /\ UNCHANGED <<now, request_times, request_cache, last_cache_cleanup,
                   issued, calls>>
    /\ UNCHANGED <<vars, pvars, uvars, fvars, evars, yvars, avars, tvars, rvars, ivars>>

\* _rate_limit: now = time.time() and the list comprehension is evaluated
RateLimitRead(w) ==
    /\ worker[w].pc = "rate_limit"
    /\ worker' = [worker EXCEPT ![w].pc = "store", ![w].now = now,
                                ![w].times = RecentRequests(request_times, now)]
    /\ UNCHANGED <<now, request_times, request_cache, last_cache_cleanup,
                   lru, issued, calls>>
    /\ UNCHANGED <<vars, pvars, uvars, fvars, evars, yvars, avars, tvars, rvars, ivars>>

\* _rate_limit: the comprehension's list is stored in self.request_times,
\* then the length test and the sleep
RateLimitStore(w) ==
    /\ worker[w].pc = "store"
    /\ request_times' = worker[w].times
    /\ IF Len(worker[w].times) >= MaxRequestsPerSecond
       THEN LET sleep_time == 1 - (worker[w].now - worker[w].times[1])
            IN  worker' = [worker EXCEPT
                    ![w].times = <<>>, ![w].waited = TRUE,
                    ![w].pc = IF sleep_time > 0 THEN "sleep" ELSE "append",
                    ![w].wake = IF sleep_time > 0 THEN now + sleep_time ELSE 0]
       ELSE worker' = [worker EXCEPT ![w].times = <<>>, ![w].pc = "append"]
    /\ UNCHANGED <<now, request_cache, last_cache_cleanup, lru, issued, calls>>
    /\ UNCHANGED <<vars, pvars, uvars, fvars, evars, yvars, avars, tvars, rvars, ivars>>

\* time.sleep(sleep_time) returns
WakeUp(w) ==
    /\ worker[w].pc = "sleep"
    /\ now >= worker[w].wake
    /\ worker' = [worker EXCEPT ![w].pc = "append", ![w].wake = 0]
    /\ UNCHANGED <<now, request_times, request_cache, last_cache_cleanup,
                   lru, issued, calls>>
    /\ UNCHANGED <<vars, pvars, uvars, fvars, evars, yvars, avars, tvars, rvars, ivars>>

\* _rate_limit: after a wait the list is filtered again with the same
\* `now`; self.request_times.append(now)
RateLimitAppend(w) ==
    /\ worker[w].pc = "append"
    /\ request_times' =
          Append(IF worker[w].waited
                 THEN RecentRequests(request_times, worker[w].now)
                 ELSE request_times,
                 worker[w].now)
    /\ worker' = [worker EXCEPT ![w].pc = "get", ![w].waited = FALSE,
                                ![w].now = 0]
    /\ UNCHANGED <<now, request_cache, last_cache_cleanup, lru, issued, calls>>
    /\ UNCHANGED <<vars, pvars, uvars, fvars, evars, yvars, avars, tvars, rvars, ivars>>

\* self.session.get(...); raise_for_status(); _add_to_cache(cache_key, data)
\* or, on a RequestException, logger.error and return None
SessionGet(w, resp) ==
    /\ worker[w].pc = "get"
    /\ issued' = Append(issued, now)
    /\ request_cache' = CacheAfterResponse(request_cache, worker[w].key, now, resp)
    /\ IF resp.status = 200
       THEN /\ worker' = [worker EXCEPT ![w].pc = "cleanup",
                                        ![w].result = resp.data]
            /\ UNCHANGED lru
       ELSE Return(w, None, TRUE)
    /\ UNCHANGED <<now, request_times, last_cache_cleanup, calls>>
    /\ UNCHANGED <<vars, pvars, uvars, fvars, evars, yvars, avars, tvars, rvars, ivars>>

\* _cleanup_cache: now = time.time() and the interval test, outside the lock
CleanupCheck(w) ==
    /\ worker[w].pc = "cleanup"
    /\ IF now - last_cache_cleanup > CacheCleanupInterval
       THEN /\ worker' = [worker EXCEPT ![w].pc = "sweep", ![w].now = now]
            /\ UNCHANGED lru
       ELSE Return(w, worker[w].result, FALSE)
    /\ UNCHANGED <<now, request_times, request_cache, last_cache_cleanup,
                   issued, calls>>
    /\ UNCHANGED <<vars, pvars, uvars, fvars, evars, yvars, avars, tvars, rvars, ivars>>

\* _cleanup_cache: the sweep under cache_lock
Sweep(w) ==
    /\ worker[w].pc = "sweep"
    /\ request_cache' = SweepCache(request_cache, worker[w].now)
    /\ last_cache_cleanup' = worker[w].now
    /\ Return(w, worker[w].result, FALSE)
    /\ UNCHANGED <<now, request_times, issued, calls>>
    /\ UNCHANGED <<vars, pvars, uvars, fvars, evars, yvars, avars, tvars, rvars, ivars>>

\* the clock advances to a later instant
Tick(t) ==
    /\ t > now
    /\ now' = t
    /\ issued' = RecentRequests(issued, t)
    /\ UNCHANGED <<request_times, request_cache, last_cache_cleanup, lru,
                   worker, calls>>
    /\ UNCHANGED <<vars, pvars, uvars, fvars, evars, yvars, avars, tvars, rvars, ivars>>

ClientNext ==
    \/ \E w \in Workers, k \in Keys, memo \in BOOLEAN : Call(w, k, memo)
    \/ \E w \in Workers : CacheLookup(w)
    \/ \E w \in Workers : RateLimitRead(w)
    \/ \E w \in Workers : RateLimitStore(w)
    \/ \E w \in Workers : WakeUp(w)
    \/ \E w \in Workers : RateLimitAppend(w)
    \/ \E w \in Workers, resp \in Responses : SessionGet(w, resp)
    \/ \E w \in Workers : CleanupCheck(w)
    \/ \E w \in Workers : Sweep(w)
    \/ \E t \in Instants : Tick(t)

ClientSpec == Init /\ [][ClientNext]_cvars

----------------------------------------------------------------------------
(* The paginated fetches: get_movie_ids, _fetch_movies_for_year,
   get_movies_since_date (tmdb_client.py), fetch_all_movies_by_year
   (getMovies.py).  One step per request; the reply is the upstream's. *)

\* years handed to the fetch loop
MaxYears == 2

Fetches == {"get_movie_ids", "_fetch_movies_for_year", "get_movies_since_date",
            "fetch_all_movies_by_year"}

\* years_to_process
YearLists == { [i \in 1..n |-> 2021 + i] : n \in 1..MaxYears }

\* total_pages values the upstream reports
TotalPagesReported == {0, 2, 1000}

\* what a request returns: None (failed request), the empty object, or a
\* page with its total_pages and a results list that may be empty
PageReplies ==
    { [kind |-> "none", total_pages |-> 0, results |-> FALSE],
      [kind |-> "empty", total_pages |-> 0, results |-> FALSE] }
    \cup { [kind |-> "page", total_pages |-> tp, results |-> r] :
              tp \in TotalPagesReported, r \in BOOLEAN }

\* max_pages of each fetch
MaxPagesOf(fn) ==
    CASE fn = "get_movie_ids" -> 300
      [] fn = "_fetch_movies_for_year" -> 300
      [] fn = "get_movies_since_date" -> 20
      [] fn = "fetch_all_movies_by_year" -> 500
      [] OTHER -> 0

MinUncapped(a, b) == a

\* min(total_pages, max_pages)
Min(a, b) == IF a < b THEN a ELSE b

\* reply.get('total_pages', default)
TotalPagesGet(reply, default) ==
    IF reply.kind = "page" THEN reply.total_pages ELSE default

\* the year's loop is over: the next year of get_movie_ids, or the end
EndOfYear(p) ==
    IF p.fn = "get_movie_ids" /\ Len(p.years) > 1
    THEN [p EXCEPT !.pc = "first", !.years = Tail(@), !.page = 0,
                   !.total_pages = 0, !.requests = 0, !.highest = 0]
    ELSE [p EXCEPT !.pc = "done", !.years = <<>>]

\* an exception reaches the function's outer handler (get_movie_ids,
\* _fetch_movies_for_year) or its caller (fetch_all_movies_by_year)
Aborted(p) == [p EXCEPT !.pc = "done", !.aborted = TRUE]

\* a fetch is called; range_ok: the request for the earliest year of
\* get_movie_ids returned a page with a result
StartFetch(fn, years, range_ok) ==
    /\ pager.pc = "done"
    /\ fn = "get_movie_ids" \/ (Len(years) = 1 /\ range_ok)
    /\ pager' =
          IF fn = "get_movie_ids" /\ ~range_ok
          THEN [NoFetch EXCEPT !.fn = fn, !.aborted = TRUE]
          ELSE IF fn = "get_movies_since_date"
          THEN [NoFetch EXCEPT !.fn = fn, !.pc = "loop", !.all = years,
                               !.years = years, !.page = 1, !.total_pages = 1]
          ELSE [NoFetch EXCEPT !.fn = fn, !.pc = "first", !.all = years,
                               !.years = years]
    /\ UNCHANGED <<vars, cvars, uvars, fvars, evars, yvars, avars, tvars, rvars, ivars>>

\* the request that reads total_pages (page 1)
FirstPage(reply) ==
    /\ pager.pc = "first"
    /\ LET asked == [pager EXCEPT !.requests = 1, !.highest = 1,
                                  !.attempted = @ \cup {Head(pager.years)}]
       IN  pager' =
             IF reply.kind = "none"
             THEN Aborted(asked)        \* None.get(...) / get() raised
             ELSE IF pager.fn = "fetch_all_movies_by_year"
             THEN [asked EXCEPT !.pc = "loop", !.page = 2,
                     !.total_pages = Min(TotalPagesGet(reply, 1), MaxPagesOf(pager.fn))]
             ELSE [asked EXCEPT !.pc = "loop", !.page = 1,
                     !.total_pages = Min(TotalPagesGet(reply, 0), MaxPagesOf(pager.fn))]
    /\ UNCHANGED <<vars, cvars, uvars, fvars, evars, yvars, avars, tvars, rvars, ivars>>

\* one iteration of the page loop
NextPage(reply) ==
    /\ pager.pc = "loop"
    /\ pager.page <= pager.total_pages
    /\ LET asked == [pager EXCEPT !.requests = @ + 1,
                        !.highest = IF pager.page > @ THEN pager.page ELSE @]
       IN  pager' =
             CASE pager.fn = "get_movies_since_date" ->
                    IF reply.kind # "page" THEN EndOfYear(asked)
                    ELSE [asked EXCEPT !.page = @ + 1,
                            !.total_pages = Min(reply.total_pages, MaxPagesOf(pager.fn))]
               [] pager.fn = "fetch_all_movies_by_year" ->
                    IF reply.kind = "none" THEN Aborted(asked)
                    ELSE [asked EXCEPT !.page = @ + 1]
               [] OTHER ->
                    IF reply.kind # "page" \/ ~reply.results THEN EndOfYear(asked)
                    ELSE [asked EXCEPT !.page = @ + 1]
    /\ UNCHANGED <<vars, cvars, uvars, fvars, evars, yvars, avars, tvars, rvars, ivars>>

\* the loop condition fails
LastPage ==
    /\ pager.pc = "loop"
    /\ pager.page > pager.total_pages
    /\ pager' = EndOfYear(pager)
    /\ UNCHANGED <<vars, cvars, uvars, fvars, evars, yvars, avars, tvars, rvars, ivars>>

PagerStep ==
    \/ \E reply \in PageReplies : FirstPage(reply)
    \/ \E reply \in PageReplies : NextPage(reply)
    \/ LastPage

PagerNext ==
    \/ \E fn \in Fetches, years \in YearLists, range_ok \in BOOLEAN :
          StartFetch(fn, years, range_ok)
    \/ \E reply \in PageReplies : FirstPage(reply)
    \/ \E reply \in PageReplies : NextPage(reply)
    \/ LastPage

\* every request is answered or times out (timeout=5), so a fetch that
\* can take a step takes it
PagerSpec == Init /\ [][PagerNext]_pvars /\ WF_pvars(PagerStep)

----------------------------------------------------------------------------
(* The external ID a loader resolves, and the year taken from a title *)

\* candidates with each of the two ID fields absent or populated
MaxExternalId == 2

IdCandidates ==
    { Cand(tid, tId, "A", FALSE, <<>>) :
         tid \in 0..MaxExternalId, tId \in 0..MaxExternalId }

\* the tmdb_id column of the rows a loader stores for one candidate
StoredIds(r) == { m.tmdb_id : m \in r.db.movies }

\* load_movie_data_batch([md]) on the empty database
BatchOfOne(md) == BulkSaveObjects(EmptyDb, MoviesToAdd(<<md>>, {}))

\* characters of a title: a letter, a blank, the parentheses, a digit
Chars == {"a", " ", "(", ")", "1"}

MaxTitleLen == 7

Titles == UNION { [1..n -> Chars] : n \in 0..MaxTitleLen }

\* str.rfind(ch): the last position of ch, 0 when absent (positions from 1)
RFind(title, ch) ==
    LET at == {i \in 1..Len(title) : title[i] = ch}
    IN  IF at = {} THEN 0 ELSE CHOOSE i \in at : \A j \in at : j <= i

\* str.strip()
RECURSIVE LStrip(_)
LStrip(str) ==
    IF str # <<>> /\ Head(str) = " " THEN LStrip(Tail(str)) ELSE str

RECURSIVE RStrip(_)
RStrip(str) ==
    IF str # <<>> /\ str[Len(str)] = " "
    THEN RStrip(SubSeq(str, 1, Len(str) - 1)) ELSE str

Strip(str) == LStrip(RStrip(str))

\* the value of a string of digits
RECURSIVE DigitsValue(_)
DigitsValue(str) ==
    IF str = <<>> THEN 0
    ELSE 10 * DigitsValue(SubSeq(str, 1, Len(str) - 1)) + 1

\* int(str): blanks around the digits are accepted, anything else raises
\* ValueError, which both extractors turn into None
IntOrNone(str) ==
    LET digits == Strip(str)
    IN  IF digits # <<>> /\ \A i \in 1..Len(digits) : digits[i] = "1"
        THEN [found |-> TRUE, year |-> DigitsValue(digits)]
        ELSE NoYear

\* title[a:b] with non-negative a, b (Python slice, 0-based, b exclusive)
Slice(str, a, b) == SubSeq(str, a + 1, IF b > Len(str) THEN Len(str) ELSE b)

\* MovieLensLoader.load_data.extract_year
extract_year(title) ==
    IF RFind(title, "(") # 0 /\ RFind(title, ")") # 0
    THEN IntOrNone(Slice(title, RFind(title, "("), RFind(title, ")") - 1))
    ELSE NoYear

\* title.strip()[-5:-1]
LastFiveButOne(title) ==
    LET t == Strip(title)
        n == Len(t)
    IN  SubSeq(t, IF n > 5 THEN n - 4 ELSE 1, n - 1)

\* check_ml_dates.extract_year_from_title
extract_year_from_title(title) == IntOrNone(LastFiveButOne(title))

\* nothing has been computed yet
FnIdle ==
    /\ resolved.single = {} /\ resolved.batch = {}
    /\ extracted.fn = "none"

\* the same candidate given to load_movie_data and to load_movie_data_batch
ResolveIds ==
    /\ FnIdle
    /\ \E md \in IdCandidates :
          resolved' = [md |-> md,
                       single |-> StoredIds(LoadMovieDataResult(EmptyDb, md)),
                       batch |-> StoredIds(BatchOfOne(md))]
    /\ UNCHANGED extracted
    /\ UNCHANGED <<vars, cvars, pvars, uvars, evars, yvars, avars, tvars, rvars, ivars>>

\* extract_year(title)
ExtractYear ==
    /\ FnIdle
    /\ \E title \in Titles :
          extracted' = [fn |-> "extract_year", title |-> title,
                        year |-> extract_year(title)]
    /\ UNCHANGED resolved
    /\ UNCHANGED <<vars, cvars, pvars, uvars, evars, yvars, avars, tvars, rvars, ivars>>

\* extract_year_from_title(title)
ExtractYearFromTitle ==
    /\ FnIdle
    /\ \E title \in Titles :
          extracted' = [fn |-> "extract_year_from_title", title |-> title,
                        year |-> extract_year_from_title(title)]
    /\ UNCHANGED resolved
    /\ UNCHANGED <<vars, cvars, pvars, uvars, evars, yvars, avars, tvars, rvars, ivars>>

FnNext ==
    \/ ResolveIds
    \/ ExtractYear
    \/ ExtractYearFromTitle

FnSpec == Init /\ [][FnNext]_fvars

----------------------------------------------------------------------------
(* MovieETL._enrich_movie_batch: process_movie on the threads of the pool,
   as_completed on the main thread *)

\* movies of one batch
MaxBatch == 2

\* cache files present when the batch starts
CachedAtStart ==
    SUBSET {<<1, "details">>, <<1, "keywords">>, <<2, "keywords">>}

\* what the client answers for an id during the batch: None or the data
TmdbAnswers ==
    [TmdbIds -> [details : {"None", "data"}, credits : {"None", "data"}]]

\* json.load of a cache file; a missing file, a file being written and
\* the text "null" all give None
LoadFromCache(files, tmdb_id, data_type) ==
    IF files[<<tmdb_id, data_type>>] = "data" THEN "data" ELSE "None"

\* json.dump(data, f): None is written as null
Dumped(data) == IF data = "None" THEN "null" ELSE "data"

\* a process_movie call not yet run
Queued ==
    [pc |-> "queued", details |-> "None", credits |-> "None",
     result |-> [ok |-> FALSE, tmdbId |-> NoId, movieId |-> NoId,
                 enriched |-> FALSE, credits |-> "None"]]

\* return None
Failed(f) == [f EXCEPT !.pc = "finished"]

\* return movie_data / return enriched_data
Returned(f, md, enriched) ==
    [f EXCEPT !.pc = "finished",
              !.result = [ok |-> TRUE, tmdbId |-> md.tmdbId,
                          movieId |-> md.movieId, enriched |-> enriched,
                          credits |-> IF enriched THEN f.credits ELSE "None"]]

\* the result of process_movie(md) run alone on the files the batch
\* started with
ProcessMovieAlone(md, files, answers) ==
    IF md.tmdbId = NoId THEN Returned(Queued, md, FALSE).result
    ELSE LET cached(t) == LoadFromCache(files, md.tmdbId, t)
             details == IF cached("details") # "None" THEN cached("details")
                        ELSE answers[md.tmdbId].details
             credits == IF cached("credits") # "None" THEN cached("credits")
                        ELSE answers[md.tmdbId].credits
         IN  IF cached("keywords") = "None" \/ details = "None"
             THEN Queued.result
             ELSE Returned([Queued EXCEPT !.credits = credits], md, TRUE).result

\* _enrich_movie_batch(movie_batch): the futures are submitted
EnrichMovieBatch ==
    /\ epc = "idle"
    /\ \E batch \in ListsUpTo(MLRows, MaxBatch) :
          /\ batch # <<>>
          /\ \A i, j \in 1..Len(batch) : i # j => batch[i].movieId # batch[j].movieId
          /\ movie_batch' = batch
          /\ future' = [i \in 1..Len(batch) |-> Queued]
    /\ \E cached \in CachedAtStart :
          cache_files' = [f \in TmdbIds \X DataTypes |->
                             IF f \in cached THEN "data" ELSE "absent"]
    /\ files_at_start' = cache_files'
    /\ \E answers \in TmdbAnswers : tmdb_answers' = answers
    /\ enriched_movies' = <<>>
    /\ yielded' = {}
    /\ epc' = "collecting"
    /\ UNCHANGED <<vars, cvars, pvars, uvars, fvars, yvars, avars, tvars, rvars, ivars>>

\* process_movie begins: a movie without tmdbId is returned as it is
TaskStart(i) ==
    /\ i \in DOMAIN future
    /\ future[i].pc = "queued"
    /\ future' = [future EXCEPT ![i] =
                     IF movie_batch[i].tmdbId = NoId
                     THEN Returned(@, movie_batch[i], FALSE)
                     ELSE [@ EXCEPT !.pc = "details"]]
    /\ UNCHANGED <<movie_batch, cache_files, files_at_start, tmdb_answers,
                   enriched_movies, yielded, epc>>
    /\ UNCHANGED <<vars, cvars, pvars, uvars, fvars, yvars, avars, tvars, rvars, ivars>>

\* _load_from_cache(tmdb_id, data_type); on a miss the client is asked and
\* _save_to_cache opens the file for writing, which empties it
LoadOrFetch(i, data_type) ==
    /\ i \in DOMAIN future
    /\ future[i].pc = data_type
    /\ LET tmdb_id == movie_batch[i].tmdbId
           cached == LoadFromCache(cache_files, tmdb_id, data_type)
           next == IF data_type = "details" THEN "credits" ELSE "keywords"
       IN  IF cached # "None"
           THEN /\ future' = [future EXCEPT ![i] =
                                [@ EXCEPT ![data_type] = cached, !.pc = next]]
                /\ UNCHANGED cache_files
           ELSE /\ future' = [future EXCEPT ![i] =
                                [@ EXCEPT ![data_type] = tmdb_answers[tmdb_id][data_type],
                                          !.pc = data_type \o "_save"]]
                /\ cache_files' = [cache_files EXCEPT ![<<tmdb_id, data_type>>] = "partial"]
    /\ UNCHANGED <<movie_batch, files_at_start, tmdb_answers, enriched_movies,
                   yielded, epc>>
    /\ UNCHANGED <<vars, cvars, pvars, uvars, fvars, yvars, avars, tvars, rvars, ivars>>

\* json.dump has written the file; time.sleep(0.25)
SaveDone(i, data_type) ==
    /\ i \in DOMAIN future
    /\ future[i].pc = data_type \o "_save"
    /\ cache_files' = [cache_files EXCEPT ![<<movie_batch[i].tmdbId, data_type>>] =
                          Dumped(future[i][data_type])]
    /\ future' = [future EXCEPT ![i].pc =
                     IF data_type = "details" THEN "credits" ELSE "keywords"]
    /\ UNCHANGED <<movie_batch, files_at_start, tmdb_answers, enriched_movies,
                   yielded, epc>>
    /\ UNCHANGED <<vars, cvars, pvars, uvars, fvars, yvars, avars, tvars, rvars, ivars>>

\* the keywords: from the cache file, or self.tmdb_client.get_movie_keywords,
\* which TMDBClient does not define (AttributeError, caught: return None);
\* then enriched_data is built, details.get raising when details is None
KeywordsAndCombine(i) ==
    /\ i \in DOMAIN future
    /\ future[i].pc = "keywords"
    /\ future' = [future EXCEPT ![i] =
                     IF \/ LoadFromCache(cache_files, movie_batch[i].tmdbId,
                                         "keywords") = "None"
                        \/ future[i].details = "None"
                     THEN Failed(@)
                     ELSE Returned(@, movie_batch[i], TRUE)]
    /\ UNCHANGED <<movie_batch, cache_files, files_at_start, tmdb_answers,
                   enriched_movies, yielded, epc>>
    /\ UNCHANGED <<vars, cvars, pvars, uvars, fvars, yvars, avars, tvars, rvars, ivars>>

\* as_completed yields a finished future; a truthy result is appended
CollectFirstOnly(list, i, result) ==
    IF result.ok /\ list = <<>>
    THEN Append(list, [future |-> i, record |-> result]) ELSE list

Collect(list, i, result) ==
    IF result.ok THEN Append(list, [future |-> i, record |-> result]) ELSE list

AsCompleted(i) ==
    /\ epc = "collecting"
    /\ i \in DOMAIN future
    /\ i \notin yielded
    /\ future[i].pc = "finished"
    /\ yielded' = yielded \cup {i}
    /\ enriched_movies' = Collect(enriched_movies, i, future[i].result)
    /\ UNCHANGED <<movie_batch, future, cache_files, files_at_start,
                   tmdb_answers, epc>>
    /\ UNCHANGED <<vars, cvars, pvars, uvars, fvars, yvars, avars, tvars, rvars, ivars>>

\* return enriched_movies
ReturnEnriched ==
    /\ epc = "collecting"
    /\ yielded = DOMAIN future
    /\ epc' = "returned"
    /\ UNCHANGED <<movie_batch, future, cache_files, files_at_start,
                   tmdb_answers, enriched_movies, yielded>>
    /\ UNCHANGED <<vars, cvars, pvars, uvars, fvars, yvars, avars, tvars, rvars, ivars>>

\* MovieETL.update_movie(tmdb_id): movie_data =
\* self._enrich_movie_batch([{'tmdbId': tmdb_id}])[0]; the subscript raises
\* IndexError on an empty list (logged and re-raised), `if not movie_data:
\* return` skips a falsy first element, anything else goes on to
\* load_movie_data
UpdateMovieFirstEnriched ==
    /\ epc = "returned"
    /\ Len(movie_batch) = 1
    /\ movie_batch[1].tmdbId # NoId
    /\ epc' = IF enriched_movies = <<>> THEN "IndexError"
              ELSE IF ~enriched_movies[1].record.ok THEN "skipped"
              ELSE "load_movie_data"
    /\ UNCHANGED <<movie_batch, future, cache_files, files_at_start,
                   tmdb_answers, enriched_movies, yielded>>
    /\ UNCHANGED <<vars, cvars, pvars, uvars, fvars, yvars, avars, tvars, rvars, ivars>>

PoolNext ==
    \/ EnrichMovieBatch
    \/ \E i \in 1..MaxBatch : TaskStart(i)
    \/ \E i \in 1..MaxBatch, data_type \in {"details", "credits"} :
          LoadOrFetch(i, data_type)
    \/ \E i \in 1..MaxBatch, data_type \in {"details", "credits"} :
          SaveDone(i, data_type)
    \/ \E i \in 1..MaxBatch : KeywordsAndCombine(i)
    \/ \E i \in 1..MaxBatch : AsCompleted(i)
    \/ ReturnEnriched
    \/ UpdateMovieFirstEnriched

PoolSpec == Init /\ [][PoolNext]_evars

----------------------------------------------------------------------------
(* TMDBUpdater.update_all_movies: pages of the movies table ordered by
   updated_at, each row of a page updated before the next page is read *)

\* rows of the movies table
MaxRows == 3

RowIds == 1..MaxRows

\* updated_at values of the rows before the run (the run starts at time 1)
OldTimes == {0, 1}

\* update_all_movies(upd_batch_size = 100)
DefaultBatchSize == 100

UpdateBatchSizes == {1, 2, DefaultBatchSize}

\* the tables a run can start on
MovieTables == UNION {[ids -> OldTimes] : ids \in SUBSET RowIds}

\* SELECT id, updated_at FROM movies ORDER BY updated_at ASC: the orders of
\* all rows the statement can produce (rows with equal updated_at come in
\* any order)
OrderedByUpdatedAt(tbl) ==
    {s \in [1..Cardinality(DOMAIN tbl) -> DOMAIN tbl] :
        /\ \A i, j \in DOMAIN s : i < j => s[i] # s[j]
        /\ \A i, j \in DOMAIN s : i < j => tbl[s[i]] <= tbl[s[j]]}

\* LIMIT :limit OFFSET :offset
LimitOffset(rows, limit, offset) ==
    SubSeq(rows, offset + 1,
           IF offset + limit > Len(rows) THEN Len(rows) ELSE offset + limit)

\* update_all_movies: SELECT COUNT(*); return 0 on an empty table
UpdateAllMovies ==
    /\ apc = "idle"
    /\ \E tbl \in MovieTables, size \in UpdateBatchSizes, found \in [RowIds -> BOOLEAN] :
          /\ updated_at' = tbl
          /\ upd_batch_size' = size
          /\ tmdb_found' = found
          /\ total_movies' = Cardinality(DOMAIN tbl)
          /\ selected' = [id \in DOMAIN tbl |-> 0]
          /\ apc' = IF DOMAIN tbl = {} THEN "done" ELSE "while"
    /\ UNCHANGED <<current_timestamp, processed_count, updated_count, batch_movies,
                   next_in_batch>>
    /\ UNCHANGED <<vars, cvars, pvars, uvars, fvars, evars, yvars, tvars, rvars, ivars>>

\* while processed_count < total_movies: SELECT ... LIMIT :limit OFFSET
\* :offset; break on an empty page
SelectBatch ==
    /\ apc = "while"
    /\ IF processed_count < total_movies
       THEN \E rows \in OrderedByUpdatedAt(updated_at) :
              LET batch == LimitOffset(rows, upd_batch_size, processed_count) IN
                /\ batch_movies' = batch
                /\ next_in_batch' = 1
                /\ selected' = [id \in DOMAIN selected |->
                                  IF \E i \in DOMAIN batch : batch[i] = id
                                  THEN selected[id] + 1 ELSE selected[id]]
                /\ apc' = IF batch = <<>> THEN "done" ELSE "for"
       ELSE /\ apc' = "done"
            /\ UNCHANGED <<batch_movies, next_in_batch, selected>>
    /\ UNCHANGED <<updated_at, current_timestamp, upd_batch_size, tmdb_found, total_movies,
                   processed_count, updated_count>>
    /\ UNCHANGED <<vars, cvars, pvars, uvars, fvars, evars, yvars, tvars, rvars, ivars>>

\* for movie_id, last_update in batch_movies: a movie TMDB does not return
\* is left alone; otherwise update_existing_movie sets updated_at =
\* CURRENT_TIMESTAMP, which has not moved or has moved on since the last
\* statement
UpdateSelected ==
    /\ apc = "for"
    /\ next_in_batch <= Len(batch_movies)
    /\ LET movie_id == batch_movies[next_in_batch] IN
        IF tmdb_found[movie_id]
        THEN \E t \in {current_timestamp, current_timestamp + 1} :
                /\ current_timestamp' = t
                /\ updated_at' = [updated_at EXCEPT ![movie_id] = t]
                /\ updated_count' = updated_count + 1
        ELSE UNCHANGED <<updated_at, current_timestamp, updated_count>>
    /\ next_in_batch' = next_in_batch + 1
    /\ UNCHANGED <<upd_batch_size, tmdb_found, total_movies, processed_count,
                   batch_movies, selected, apc>>
    /\ UNCHANGED <<vars, cvars, pvars, uvars, fvars, evars, yvars, tvars, rvars, ivars>>

\* processed_count += len(batch_movies)
BatchProcessed ==
    /\ apc = "for"
    /\ next_in_batch > Len(batch_movies)
    /\ processed_count' = processed_count + Len(batch_movies)
    /\ apc' = "while"
    /\ UNCHANGED <<updated_at, current_timestamp, upd_batch_size, tmdb_found, total_movies,
                   updated_count, batch_movies, next_in_batch, selected>>
    /\ UNCHANGED <<vars, cvars, pvars, uvars, fvars, evars, yvars, tvars, rvars, ivars>>

UpdateAllStep == SelectBatch \/ UpdateSelected \/ BatchProcessed

UpdateAllNext == UpdateAllMovies \/ UpdateAllStep

\* the loop runs in one thread that nothing suspends
UpdateAllSpec ==
    Init /\ [][UpdateAllNext]_avars /\ WF_avars(UpdateAllStep)

----------------------------------------------------------------------------
(* TMDBUpdater.update_existing_movie statement by statement on self.conn:
   conn.execute changes what the connection sees, conn.commit makes it
   durable, and no path rolls back *)

\* calls of update_existing_movie on one connection
MaxUpdates == 2

\* get_movie_details(movie_id) as update_existing_movie reads it; an entry
\* of 'genres' without a 'name' is NULL
TmdbDetailsRead ==
    TmdbDetails \cup {[found |-> TRUE, title |-> "B", genres |-> <<NULL>>]}

\* the tables when the updater connects: each movie absent, or stored with
\* or without a genre row and a credit row
StoredCatalogs ==
    { [movies |-> { [id |-> m, title |-> "A"] : m \in ids },
       genres |-> { [movie_id |-> m, genre_name |-> "Drama"] : m \in gs },
       credits |-> { [movie_id |-> m, person_id |-> 7] : m \in ks }] :
      <<ids, gs, ks>> \in { t \in (SUBSET MovieIds) \X (SUBSET MovieIds)
                                   \X (SUBSET MovieIds) :
                               t[2] \subseteq t[1] /\ t[3] \subseteq t[1] } }

\* self.conn.commit()
ConnCommit(c) == [c EXCEPT !.durable = c.view]

\* TMDBUpdater._update_genres on the connection: DELETE, return on no
\* genres, KeyError on genre['name'] (logged and re-raised), INSERT, commit
UpdateGenresOnConn(c, movie_id, details) ==
    LET deleted == [c EXCEPT !.view.genres =
                        { g \in @ : g.movie_id # movie_id }] IN
    IF details.genres = <<>> THEN [c |-> deleted, raised |-> FALSE]
    ELSE IF \E i \in DOMAIN details.genres : details.genres[i] = NULL
    THEN [c |-> deleted, raised |-> TRUE]
    ELSE [c |-> ConnCommit([deleted EXCEPT !.view.genres = @ \cup
                 { [movie_id |-> movie_id, genre_name |-> details.genres[i]] :
                      i \in DOMAIN details.genres }]),
          raised |-> FALSE]

\* TMDBUpdater._update_credits on the connection: DELETE, return on no
\* records, INSERT, commit
UpdateCreditsOnConn(c, movie_id, credits) ==
    LET deleted == [c EXCEPT !.view.credits =
                        { k \in @ : k.movie_id # movie_id }] IN
    IF credits.people = <<>> THEN deleted
    ELSE ConnCommit([deleted EXCEPT !.view.credits = @ \cup
             { [movie_id |-> movie_id, person_id |-> credits.people[i]] :
                  i \in DOMAIN credits.people }])

\* TMDBUpdater.update_existing_movie on the connection: False before any
\* statement when TMDB has no details or no credits; UPDATE movies;
\* _update_genres; _update_credits; commit; the except block logs and
\* returns False
UpdateExistingMovieOnConn(c, movie_id, details, credits) ==
    IF ~details.found \/ ~credits.found THEN [c |-> c, ok |-> FALSE]
    ELSE LET updated == [c EXCEPT !.view = UpdateMovieRow(@, movie_id, details)]
             g == UpdateGenresOnConn(updated, movie_id, details)
         IN  IF g.raised THEN [c |-> g.c, ok |-> FALSE]
             ELSE [c |-> ConnCommit(UpdateCreditsOnConn(g.c, movie_id, credits)),
                   ok |-> TRUE]

\* TMDBUpdater.__init__: self.conn = self.db.engine.connect()
Connect ==
    /\ ~connected
    /\ \E stored \in StoredCatalogs :
          /\ durable' = stored
          /\ conn' = stored
          /\ atomic_db' = stored
    /\ connected' = TRUE
    /\ UNCHANGED <<returned, n_updates>>
    /\ UNCHANGED <<vars, cvars, pvars, uvars, fvars, evars, yvars, avars, rvars, ivars>>

\* one call of update_existing_movie(movie_id)
UpdateExistingMovieCall ==
    /\ connected
    /\ n_updates < MaxUpdates
    /\ \E movie_id \in MovieIds, details \in TmdbDetailsRead,
          credits \in TmdbCredits :
          LET r == UpdateExistingMovieOnConn([durable |-> durable, view |-> conn],
                                             movie_id, details, credits)
          IN  /\ durable' = r.c.durable
              /\ conn' = r.c.view
              /\ returned' = IF r.ok THEN "True" ELSE "False"
              /\ atomic_db' =
                    IF r.ok
                    THEN UpdateCredits(UpdateGenres(
                             UpdateMovieRow(atomic_db, movie_id, details),
                             movie_id, details), movie_id, credits)
                    ELSE atomic_db
    /\ n_updates' = n_updates + 1
    /\ UNCHANGED connected
    /\ UNCHANGED <<vars, cvars, pvars, uvars, fvars, evars, yvars, avars, rvars, ivars>>

ConnNext == Connect \/ UpdateExistingMovieCall

ConnSpec == Init /\ [][ConnNext]_tvars

----------------------------------------------------------------------------
(* TMDBETL: fetch_to_yaml, review_yaml, load_from_yaml on one review file *)

\* movies of one review file
MaxFileMovies == 4

FileMovieIds == 1..MaxFileMovies

\* answers review_yaml accepts
ReviewResponses == {"yes", "no", "skip"}

\* self._process_movie(movie): TMDBETL defines _process_single_movie and no
\* _process_movie, so the call raises AttributeError and nothing is written
ProcessMovieOfFile(db_written, movie) == [written |-> db_written, raised |-> TRUE]

\* the loop of load_from_yaml over approved_movies: each exception is
\* caught and printed
RECURSIVE LoadApproved(_, _)
LoadApproved(acc, approved) ==
    IF approved = {} THEN acc
    ELSE LET movie == CHOOSE m \in approved : \A n \in approved : m <= n
             r == ProcessMovieOfFile(acc.written, movie)
         IN  LoadApproved([written |-> r.written,
                           errors |-> acc.errors + (IF r.raised THEN 1 ELSE 0)],
                          approved \ {movie})

\* fetch_to_yaml: the movies found are saved, none of them reviewed
FetchToYaml ==
    /\ rpc = "idle"
    /\ \E movies \in (SUBSET FileMovieIds) \ {{}} :
          yaml_movies' = [m \in movies |-> "None"]
    /\ rpc' = "saved"
    /\ UNCHANGED <<archived, written, last_load>>
    /\ UNCHANGED <<vars, cvars, pvars, uvars, fvars, evars, yvars, avars, tvars, ivars>>

\* review_yaml: every movie without approval_status is asked about; 'yes'
\* and 'no' are recorded, 'skip' leaves it unreviewed
ReviewYaml ==
    /\ rpc = "saved"
    /\ ~archived
    /\ \E response \in [DOMAIN yaml_movies -> ReviewResponses] :
          yaml_movies' = [m \in DOMAIN yaml_movies |->
                             IF yaml_movies[m] = "None" /\ response[m] # "skip"
                             THEN response[m] ELSE yaml_movies[m]]
    /\ UNCHANGED <<archived, written, last_load, rpc>>
    /\ UNCHANGED <<vars, cvars, pvars, uvars, fvars, evars, yvars, avars, tvars, ivars>>

\* load_from_yaml: the approved movies are processed, and the file is
\* archived when every movie has an approval_status
LoadFromYaml ==
    /\ rpc = "saved"
    /\ ~archived
    /\ LET approved_movies == {m \in DOMAIN yaml_movies : yaml_movies[m] = "yes"}
           r == LoadApproved([written |-> written, errors |-> 0], approved_movies)
       IN  /\ written' = r.written
           /\ last_load' = [approved |-> approved_movies, errors |-> r.errors]
    /\ archived' = \A m \in DOMAIN yaml_movies : yaml_movies[m] # "None"
    /\ UNCHANGED <<yaml_movies, rpc>>
    /\ UNCHANGED <<vars, cvars, pvars, uvars, fvars, evars, yvars, avars, tvars, ivars>>

ReviewNext == FetchToYaml \/ ReviewYaml \/ LoadFromYaml

ReviewSpec == Init /\ [][ReviewNext]_rvars

----------------------------------------------------------------------------
(* TMDBClient.get_movie_ids: the IDs collected from the pages and the list
   returned on each path *)

\* the movie IDs the pages hold
PageIds == {1, 2, 8}

\* years of one call
MaxIdYears == 2

\* since_id: None (0 here, which Python treats alike) or an ID
SinceIds == 0..2

\* max_pages = 300
MaxIdPages == 300

\* what a discover/movie request returns: None, or a page with its
\* total_pages and the IDs of its results
IdPageReplies ==
    { [none |-> TRUE, total_pages |-> 0, results |-> {}] }
    \cup { [none |-> FALSE, total_pages |-> tp, results |-> r] :
              tp \in {1, 2}, r \in SUBSET PageIds }

\* the lists that hold every element of S once
ListsOfSet(S) ==
    {l \in [1..Cardinality(S) -> S] :
        \A i, j \in 1..Cardinality(S) : i # j => l[i] # l[j]}

\* list(movie_ids): the elements in the order the set iterates them.  The
\* language leaves the order open; CPython walks the hash table, where an
\* int of a set this small sits in slot movie_id % 8
ListOf(S) ==
    CHOOSE l \in ListsOfSet(S) :
        \A i, j \in 1..Cardinality(S) : i < j => l[i] % 8 < l[j] % 8

\* sorted(list(movie_ids))
Sorted(S) ==
    CHOOSE l \in ListsOfSet(S) : \A i, j \in 1..Cardinality(S) : i < j => l[i] < l[j]

\* the IDs of a page that are added: `if since_id and movie_id <=
\* since_id: continue`
AddedIds(results, since_id) ==
    {movie_id \in results : ~(since_id # 0 /\ movie_id <= since_id)}

\* the loop over a year's pages is left: the next year, or the sorted
\* list is returned
YearDone(c) ==
    IF c.years > 1
    THEN [c EXCEPT !.pc = "year", !.years = @ - 1, !.page = 0, !.total_pages = 0]
    ELSE [c EXCEPT !.pc = "done", !.years = 0, !.returned = Sorted(c.movie_ids)]

\* get_movie_ids(since_id, test_year) is called; without test_year the
\* request for the earliest year is made, and a reply without a first
\* result raises into the outer handler
GetMovieIds(since_id, years, range_ok) ==
    /\ ids_call.pc \in {"idle", "done"}
    /\ ids_call' =
          IF range_ok
          THEN [NoIdsCall EXCEPT !.pc = "year", !.since_id = since_id,
                                 !.years = years]
          ELSE [NoIdsCall EXCEPT !.pc = "done", !.since_id = since_id,
                                 !.error_path = TRUE]
    /\ UNCHANGED <<vars, cvars, pvars, uvars, fvars, evars, yvars, avars, tvars, rvars>>

\* year_data = self._make_request(...); total_pages =
\* min(year_data.get('total_pages', 0), max_pages); year_data None raises
\* into the outer handler, which returns list(movie_ids)
YearData(reply) ==
    /\ ids_call.pc = "year"
    /\ IF reply.none
       THEN ids_call' = [ids_call EXCEPT !.pc = "done", !.years = 0,
                            !.returned = ListOf(ids_call.movie_ids),
                            !.error_path = TRUE]
       ELSE ids_call' = [ids_call EXCEPT !.pc = "pages", !.page = 1,
                            !.total_pages = Min(reply.total_pages, MaxIdPages)]
    /\ UNCHANGED <<vars, cvars, pvars, uvars, fvars, evars, yvars, avars, tvars, rvars>>

\* one iteration of `while page <= total_pages`
IdsPage(reply) ==
    /\ ids_call.pc = "pages"
    /\ ids_call.page <= ids_call.total_pages
    /\ ids_call' =
          IF reply.none \/ reply.results = {} THEN YearDone(ids_call)
          ELSE [ids_call EXCEPT
                   !.seen = @ \cup reply.results,
                   !.movie_ids = @ \cup AddedIds(reply.results, ids_call.since_id),
                   !.page = @ + 1]
    /\ UNCHANGED <<vars, cvars, pvars, uvars, fvars, evars, yvars, avars, tvars, rvars>>

\* the loop condition fails
IdsPagesDone ==
    /\ ids_call.pc = "pages"
    /\ ids_call.page > ids_call.total_pages
    /\ ids_call' = YearDone(ids_call)
    /\ UNCHANGED <<vars, cvars, pvars, uvars, fvars, evars, yvars, avars, tvars, rvars>>

IdsNext ==
    \/ \E since_id \in SinceIds, years \in 1..MaxIdYears, range_ok \in BOOLEAN :
          GetMovieIds(since_id, years, range_ok)
    \/ \E reply \in IdPageReplies : YearData(reply)
    \/ \E reply \in IdPageReplies : IdsPage(reply)
    \/ IdsPagesDone

IdsSpec == Init /\ [][IdsNext]_ivars

----------------------------------------------------------------------------
(* Properties *)

Upserts == {"load_movie_data", "load_movie_data_batch", "initial_load", "update_movie"}

\* a step that ends a load_movie_data_batch call (commit, or rollback and raise)
BatchEnds == pc \in {"bulk", "genres"} /\ pc' = "file"

RowsOf(d, tmdb_id) == {r \in d.movies : r.tmdb_id = tmdb_id}

\* a candidate the batch loader can store: it has an ID, a title and genre
\* names
WellFormed(md) ==
    /\ BatchTmdbId(md) # NoId
    /\ md.title # NULL
    /\ \A g \in 1..Len(md.genres) : md.genres[g] # NULL

\* C1: after any sequence of upserts every movie row has a non-null external
\* ID and no two movie rows share one.
C1_UniqueExternalId ==
    \A r \in db.movies :
        /\ r.tmdb_id # NoId
        /\ \A q \in db.movies : q.tmdb_id = r.tmdb_id => q = r

\* two movies stored, the last upsert having updated a stored one
C1_Witness ==
    /\ Cardinality(db.movies) = 2
    /\ last.op = "load_movie_data"
    /\ last.updated = 1

\* C2: a batch run again on the same input creates nothing and updates as
\* many rows as the first run created.
C2_Idempotent ==
    (last.op = "load_movie_data_batch" /\ last.ok /\ last.repeat) =>
        (last.created = 0 /\ last.updated = last.firstCreated)

\* C3: a batch's writes become durable all together at its commit or not at
\* all: a batch that raises leaves the durable database, with the batches
\* committed before, as it was, and the rest of the file stays queued for
\* the next batches.
C3_BatchTransaction ==
    [][ /\ (pc \in {"bulk", "genres"} /\ db' # db) =>
             (session.i > Len(session.list) /\ db' = session.db /\ last'.ok)
        /\ (BatchEnds /\ ~last'.ok) =>
             (db' = db /\ queue' = queue /\ session' = NoSession) ]_vars

\* a batch about to fail in its genre loop, after its movie rows were
\* flushed, with an earlier batch already committed
C3_Witness ==
    /\ pc = "genres"
    /\ session.i <= Len(session.list)
    /\ ~BatchGenresOf(session.db, session.list[session.i], session.existing).ok
    /\ session.db.movies # db.movies
    /\ db.movies # {}

\* C4: when exactly one record of a batch is malformed (no title) the other
\* records of the batch are persisted.
C4_SkipMalformed ==
    [][ (/\ BatchEnds
         /\ Cardinality({k \in 1..Len(session.list) :
                            ~WellFormed(session.list[k])}) = 1
         /\ \E k \in 1..Len(session.list) :
                BatchTmdbId(session.list[k]) # NoId /\ session.list[k].title = NULL)
        => \A k \in 1..Len(session.list) :
              WellFormed(session.list[k]) =>
                 RowsOf(db', BatchTmdbId(session.list[k])) # {} ]_vars

\* C5: two candidates of one batch sharing an external ID yield exactly one
\* row for it, with the later candidate's values.
C5_LastWriteWins ==
    [][ BatchEnds =>
          \A k, l \in 1..Len(session.list) :
             (/\ k < l
              /\ WellFormed(session.list[k]) /\ WellFormed(session.list[l])
              /\ BatchTmdbId(session.list[k]) = BatchTmdbId(session.list[l])
              /\ \A m \in 1..Len(session.list) : m > l =>
                    BatchTmdbId(session.list[m]) # BatchTmdbId(session.list[l]))
             => /\ Cardinality(RowsOf(db', BatchTmdbId(session.list[l]))) = 1
                /\ \A r \in RowsOf(db', BatchTmdbId(session.list[l])) :
                      r.title = session.list[l].title ]_vars

\* the IDs of a batch that are not stored yet
NewIds(list, existing) == BatchTmdbIds(list) \ (existing \cup {NoId})

\* every candidate of the batch that has an ID can be stored, and no ID
\* that is not stored yet comes twice
IdentifiedStorable(list, existing) ==
    /\ \A k \in 1..Len(list) :
          BatchTmdbId(list[k]) \in NewIds(list, existing) => WellFormed(list[k])
    /\ \A k, l \in 1..Len(list) :
          (k # l /\ BatchTmdbId(list[k]) \in NewIds(list, existing))
             => BatchTmdbId(list[k]) # BatchTmdbId(list[l])

C7_CreateOrUpdate ==
    [][ (BatchEnds /\ last'.ok) =>
          \A k \in 1..Len(session.list) :
             LET md == session.list[k]
                 id == BatchTmdbId(md)
             IN  (/\ id # NoId
                  /\ \A l \in 1..Len(session.list) :
                        l > k => BatchTmdbId(session.list[l]) # id)
                 => /\ Cardinality(RowsOf(db', id)) = 1
                    /\ id \in session.existing =>
                          /\ Cardinality(db'.movies) = Cardinality(db.movies)
                                + Cardinality(NewIds(session.list, session.existing))
                          /\ \A r \in RowsOf(db', id) : r.title = md.title ]_vars

Range(seq) == { seq[k] : k \in 1..Len(seq) }

GenreNamesOf(d, movie_id) ==
    { g.name : g \in { x \in d.genres :
                        \E l \in d.movie_genres :
                           l.movie_id = movie_id /\ l.genre_id = x.id } }

\* C8: after update_movie updated a stored movie, its genre, credit and
\* keyword rows are exactly those of the incoming record, one row each.
C8_ChildrenReplaced ==
    [][ \A md \in EnrichedRecords :
          (UpdateMovie(md) /\ last'.ok /\ last'.updated = 1) =>
             \A m \in RowsOf(db', md.tmdbId) :
                LET links == {l \in db'.movie_genres : l.movie_id = m.id}
                    kws   == {k \in db'.movie_keywords : k.movie_id = m.id}
                    crs   == {c \in db'.movie_credits : c.movie_id = m.id}
                IN  /\ GenreNamesOf(db', m.id) = Range(md.genres)
                    /\ Cardinality(links) = Cardinality(Range(md.genres))
                    /\ { k.tmdb_id : k \in kws } = Range(md.keywords)
                    /\ Cardinality(kws) = Cardinality(Range(md.keywords))
                    /\ Cardinality(crs) = Len(md.cast) ]_vars

\* C9: an upsert appends one change record per row it created ('create')
\* and per row it updated ('update'), and none when it is rolled back.
C9_ChangePerRecord ==
    last.op \in {"load_movie_data", "load_movie_data_batch"} =>
        /\ last.chgCreate = last.created
        /\ last.chgUpdate = last.updated

\* C10 as stated: no operation removes or rewrites a change record.
C10_AppendOnlyAlways ==
    [][ db.movie_changes \subseteq db'.movie_changes ]_vars

\* C10, amended: the change log is append-only under the loaders
\* (load_movie_data, load_movie_data_batch, initial_load, update_movie,
\* process_file, process_yaml_files); only clear_database and create_tables
\* remove change records, and they remove all of them.
C10_AppendOnlyLoaders ==
    [][ IF ClearDatabase \/ CreateTables
        THEN db'.movie_changes = {}
        ELSE db.movie_changes \subseteq db'.movie_changes ]_vars

\* a change record appended to a log that already held one
C10_Witness ==
    /\ Cardinality(db.movie_changes) = 2
    /\ last.op \in Upserts

\* the entry of a key in the response cache, as a set
EntryOf(cache, cache_key) == {e \in cache : e.key = cache_key}

\* the thread's call returns in this step
Returns(w) == worker[w].pc # "idle" /\ worker'[w].pc = "idle"

\* C11: a non-empty response cached at time T is a hit for a read before
\* T + TTL and a miss, followed by a new upstream request, for a read after
\* it, for _make_request and for the detail lookups made through
\* get_movie_details / get_movie_credits / get_person.
C11_TtlHitMiss ==
    [][ \A w \in Workers :
          /\ (worker[w].pc = "cache" /\ worker'[w] # worker[w]) =>
                \A e \in EntryOf(request_cache, worker[w].key) :
                   Truthy(e.data) =>
                      IF now - e.time < CacheTtl
                      THEN worker'[w].pc = "idle" /\ worker'[w].result = e.data
                      ELSE worker'[w].pc = "rate_limit"
          /\ \A k \in DetailKeys :
                (/\ Call(w, k, TRUE)
                 /\ \E e \in EntryOf(request_cache, k) : now - e.time >= CacheTtl)
                => worker'[w].pc = "cache" ]_cvars

\* C12: no more than N upstream requests are sent within one second.
C12_CeilingPerSecond == Len(issued) <= MaxRequestsPerSecond

\* how often a timestamp is recorded
Occurrences(times, t) == Cardinality({i \in 1..Len(times) : times[i] = t})

\* C13: no step loses a request timestamp that is less than a second old,
\* nor a cache entry younger than the TTL (other than to a newer entry of
\* its key).
C13_NothingLost ==
    [][ /\ \A i \in 1..Len(request_times) :
             now - request_times[i] < 1 =>
                Occurrences(request_times', request_times[i])
                   >= Occurrences(request_times, request_times[i])
        /\ \A e \in request_cache :
             now - e.time < CacheTtl =>
                \E f \in request_cache' : f.key = e.key /\ f.time >= e.time ]_cvars

\* C14: no upstream request is sent for a key while the cache holds a
\* response for it that is younger than the TTL.
C14_NoRedundantRequest ==
    [][ \A w \in Workers :
          (worker[w].pc = "get" /\ worker'[w].pc # "get") =>
             \A e \in EntryOf(request_cache, worker[w].key) :
                now - e.time >= CacheTtl ]_cvars

\* C15 as stated: a call that accesses the cache when more than the
\* cleanup interval has passed since the last sweep ends with the sweep
\* done: last_cache_cleanup advanced and no entry older than the TTL left.
C15_SweepOnAnyAccess ==
    [][ \A w \in Workers :
          (Returns(w) /\ now - last_cache_cleanup > CacheCleanupInterval) =>
             /\ last_cache_cleanup' > last_cache_cleanup
             /\ \A e \in request_cache' : now - e.time < CacheTtl ]_cvars

\* C15, amended: the sweep check runs only at the end of a _make_request
\* call that fetched a response from upstream and cached it.  When more
\* than the cleanup interval has passed since the last sweep, as read by
\* the thread, the sweep removes exactly the entries older than the TTL at
\* that reading and sets last_cache_cleanup to it; otherwise the check
\* leaves cache and last_cache_cleanup as they are.  Nothing else removes a
\* cache entry or moves last_cache_cleanup.
C15_SweepAfterFetch ==
    [][ \A w \in Workers :
          /\ (worker[w].pc = "get" /\ worker'[w].pc # "get") =>
                IF worker'[w].pc = "cleanup"
                THEN \E e \in EntryOf(request_cache', worker[w].key) :
                        e.time = now /\ e.data = worker'[w].result
                ELSE request_cache' = request_cache
          /\ (worker[w].pc = "cleanup" /\ worker'[w] # worker[w]) =>
                /\ request_cache' = request_cache
                /\ last_cache_cleanup' = last_cache_cleanup
                /\ IF now - last_cache_cleanup > CacheCleanupInterval
                   THEN worker'[w].pc = "sweep" /\ worker'[w].now = now
                   ELSE worker'[w].pc = "idle"
          /\ (worker[w].pc = "sweep" /\ worker'[w] # worker[w]) =>
                /\ request_cache' =
                      {e \in request_cache : worker[w].now - e.time < CacheTtl}
                /\ last_cache_cleanup' = worker[w].now
          /\ (\A v \in Workers : worker[v].pc = "sweep" => worker'[v] = worker[v]) =>
                /\ last_cache_cleanup' = last_cache_cleanup
                /\ \A e \in request_cache :
                      \E f \in request_cache' : f.key = e.key ]_cvars

\* a thread about to sweep a cache that holds an entry older than the TTL
C15_Witness ==
    \E w \in Workers :
        /\ worker[w].pc = "sweep"
        /\ \E e \in request_cache : worker[w].now - e.time >= CacheTtl
        /\ \E e \in request_cache : worker[w].now - e.time < CacheTtl

\* C16: a request that fails with an error status makes _make_request
\* return None without raising, logs the failure and leaves the cache as
\* it was.
C16_FailureReturnsNone ==
    [][ \A w \in Workers, resp \in Responses :
          (resp.status # 200 /\ SessionGet(w, resp)) =>
             /\ worker'[w].pc = "idle"
             /\ worker'[w].result = None
             /\ worker'[w].logged
             /\ request_cache' = request_cache ]_cvars

\* a call has returned None after a failed request, the cache holding
\* an earlier response
C16_Witness ==
    \E w \in Workers :
        /\ worker[w].pc = "idle"
        /\ worker[w].logged
        /\ worker[w].result = None
        /\ Cardinality(request_cache) = 2

C18_EveryYearFetched ==
    (pager.fn = "get_movie_ids" /\ pager.pc = "done" /\ pager.all # <<>>) =>
        pager.attempted = {pager.all[i] : i \in 1..Len(pager.all)}

\* C19: an update of an existing movie from a record that carries no local
\* aggregate leaves the stored rating aggregate of that movie unchanged.
C19_AggregatesKept ==
    [][ \A md \in Candidates :
          ( /\ LoadMovieData(md)
            /\ last'.updated = 1
            /\ md.average_rating = NoId )
          => \A r \in MovieByTmdbId(db, SingleTmdbId(md)) :
                \E q \in db'.movies :
                   q.id = r.id /\ q.movielens_rating = r.movielens_rating ]_vars

C21_CatalogNameWins ==
    (resolved.md.tmdb_id # NoId /\ resolved.md.tmdbId # NoId)
    => /\ resolved.single = {resolved.md.tmdb_id}
       /\ resolved.batch = resolved.single

\* the title ends with "(", four digits, ")"
TrailingYear(title) ==
    /\ Len(title) >= 6
    /\ title[Len(title) - 5] = "("
    /\ \A i \in (Len(title) - 4)..(Len(title) - 1) : title[i] = "1"
    /\ title[Len(title)] = ")"

\* C23: year extraction returns the year of a title that ends with a
\* well-formed "(YYYY)" and None for every other title.
C23_YearOrNone ==
    extracted.fn # "none"
    => extracted.year =
          IF TrailingYear(extracted.title)
          THEN [found |-> TRUE,
                year |-> DigitsValue(SubSeq(extracted.title,
                                            Len(extracted.title) - 4,
                                            Len(extracted.title) - 1))]
          ELSE NoYear

\* the records of the returned list that stem from input movie i
RecordsOf(i) ==
    { k \in DOMAIN enriched_movies : enriched_movies[k].future = i }

\* C22: whatever the order in which the workers run and complete,
\* _enrich_movie_batch returns exactly one record for each input movie
\* whose enrichment succeeds and none for a movie whose enrichment fails,
\* the record being the one process_movie gives for that movie alone.
C22_OnePerSuccess ==
    epc = "returned"
    => \A i \in DOMAIN movie_batch :
          LET alone == ProcessMovieAlone(movie_batch[i], files_at_start,
                                         tmdb_answers)
          IN  /\ Cardinality(RecordsOf(i)) = IF alone.ok THEN 1 ELSE 0
              /\ \A k \in RecordsOf(i) : enriched_movies[k].record = alone

\* two movies with the same TMDB id, whose details were not cached, were
\* both enriched, and the second movie completed first
C22_Witness ==
    /\ epc = "returned"
    /\ Len(movie_batch) = 2
    /\ movie_batch[1].tmdbId = movie_batch[2].tmdbId
    /\ Len(enriched_movies) = 2
    /\ enriched_movies[1].future = 2
    /\ files_at_start[<<1, "details">>] = "absent"

\* C24: the files of a run in which a file could not be read or a batch
\* failed to load are not moved to the processed directory, so the next
\* run finds them again.
C24_FailedFilesStay ==
    yaml_run.moved => ~(yaml_run.unreadable \/ yaml_run.failed)

\* C25: when update_all_movies has returned, every row of the movies table
\* was selected for update exactly once.
C25_EachRowOnce ==
    apc = "done" => \A id \in DOMAIN selected : selected[id] = 1

\* the loop of update_all_movies terminates
UpdateAllTerminates == (apc = "while") ~> (apc = "done")

C27_FailureNotMemoised ==
    [][ \A w \in Workers, k \in DetailKeys :
          (Call(w, k, TRUE) /\ \E m \in lru : m.key = k /\ m.result = None)
             => worker'[w].pc = "cache" ]_cvars

\* C28: when process_movie returned None for the one movie update_movie
\* asked for, update_movie skips the movie: it neither raises nor goes on
\* to load_movie_data.
C28_FailedMovieSkipped ==
    (/\ epc \in {"IndexError", "skipped", "load_movie_data"}
     /\ ~future[1].result.ok)
        => epc = "skipped"

\* C29: the movies load_from_yaml found approved have been written to the
\* database, and every movie written has approval_status 'yes' in the file.
C29_ExactlyApproved ==
    /\ last_load.approved \subseteq written
    /\ written \subseteq {m \in DOMAIN yaml_movies : yaml_movies[m] = "yes"}

\* C30: on every return path get_movie_ids returns a list in ascending
\* order without duplicates, holding only IDs seen in fetched pages and,
\* when since_id is given, only IDs greater than since_id.
C30_SortedOnEveryPath ==
    ids_call.pc = "done" =>
        LET l == ids_call.returned IN
        /\ \A i, j \in DOMAIN l : i < j => l[i] < l[j]
        /\ \A i \in DOMAIN l : l[i] \in ids_call.seen
        /\ ids_call.since_id # 0 => \A i \in DOMAIN l : l[i] > ids_call.since_id

====
